---- MODULE Spec2Model ----
(***************************************************************************)
(* Periodic animal-detection services of the AgriSmart backend.            *)
(*                                                                         *)
(* Three service classes share one lifecycle design and differ in details: *)
(*   "Simple"  SimpleRealDetection       (services/simpleRealDetection.js) *)
(*   "Animal"  AnimalDetectionService    (unnamed/part_000)                *)
(*   "Real"    RealAnimalDetectionService (middleware/notFound.js)         *)
(* The model is one state machine whose variable `variant` selects the     *)
(* class; every action follows the code of the selected class.             *)
(*                                                                         *)
(* Time is counted in units of 1000 ms.  Node.js runs every callback to    *)
(* completion, so each action is one synchronous stretch of code: from a   *)
(* call or a resumed `await` up to the next `await` or the return.         *)
(***************************************************************************)
EXTENDS Integers, Sequences, FiniteSets, TLC

(* ---------------------------- bounds ---------------------------------- *)
Horizon == 6            \* time units explored after construction
CooldownHorizon == 14   \* the same, where the cooldown window is explored
SettingsHorizon == 3    \* the same, where updateSettings is explored
HeuristicHorizon == 9   \* seconds of wall clock explored for one tick in detail
MaxTimers == 2     \* timers plus pending starts that may coexist
MaxInFlight == 2   \* ticks whose pipeline has not completed
MaxCallbacks == 2  \* length of detectionCallbacks
MaxCandidates == 3  \* candidates handed to applyNMS
MaxAnchors == 2     \* complete anchor records in a model output
MaxCalls == 4      \* calls made by the service's users
MaxPublishes == 2  \* runs of notifyDetections over re-entrant subscribers

(* ----------------------- program constants ---------------------------- *)
detectionCooldown == 10   \* 10000 ms
SimpleInterval == 3       \* 3000 ms
AnimalInterval == 2       \* 2000 ms
RealInterval == 3         \* 3000 ms
MinFrameBytes == 1000
MinConfidence == 75       \* analysis.confidence > 0.75, in hundredths
MinBrightness == 50

Variants == {"Simple", "Animal", "Real"}
Urls == {"camA", "camB"}
None == "none"
NoTimer == 0       \* intervalId = null
NoDate == 0        \* lastDetection = null
NoFrame == "null"  \* lastFrameData = null
\* a subscriber either returns normally or throws
Callbacks == {"cbOk", "cbThrow"}
Throws(cb) == cb = "cbThrow"
\* Date.now() at construction; lastDetectionTime starts at 0 and the wall
\* clock is far beyond one cooldown
Epoch == detectionCooldown + 1
\* poll intervals a caller may set
Intervals == {5}

VARIABLES
  variant,             \* which service class this instance is
  isRunning, intervalId, cameraUrl, detectionInterval, detectionCallbacks,
  frameCount, lastDetection, lastDetectionTime,
  model,               \* AnimalDetectionService.model is loaded
  timers,              \* the runtime's active setInterval timers
  probes,              \* pending connectivity probes of startDetection, per URL
  initWait,            \* startDetection calls awaiting initializeModel()
  ticks,               \* interval callbacks awaiting their frame analysis
  now,                 \* wall clock
  result,              \* value returned by the most recent start/stop call
  stopped,             \* stopDetection succeeded and no start was accepted since
  lastPublish,         \* most recent notifyDetections run: the callbacks
                       \* registered, those invoked, exceptions caught
  emits,               \* times of the last two detections analyzeFrame emitted
  calls,               \* calls made so far by the service's users
  lastFrameData,       \* RealAnimalDetectionService: the stored previous frame
  fetch,               \* the frame request of the tick that is followed URL by URL
  calc                 \* arguments and results of calculateIoU and applyNMS

vars == <<variant, isRunning, intervalId, cameraUrl, detectionInterval,
          detectionCallbacks, frameCount, lastDetection, lastDetectionTime,
          model, timers, probes, initWait, ticks, now, result, stopped,
          lastPublish, emits, calls, lastFrameData,
          fetch, calc>>

DefaultInterval(v) ==
  CASE v = "Simple" -> SimpleInterval
    [] v = "Animal" -> AnimalInterval
    [] OTHER -> RealInterval

\* no tick is being followed; last is the outcome of the latest one
IdleFetch == [pc |-> "idle", idx |-> 0, bytes |-> 0, last |-> None]
\* no call of calculateIoU or applyNMS has been made
NoCalc == [op |-> None]

NoPublish == [registered |-> <<>>, delivered |-> <<>>, caught |-> 0,
              escaped |-> FALSE, stale |-> FALSE]

Ret(op, ok, msg) == [op |-> op, success |-> ok, message |-> msg]

Init ==
  /\ variant \in Variants
  /\ isRunning = FALSE
  /\ intervalId = NoTimer
  /\ cameraUrl = "camA"
  /\ detectionInterval = DefaultInterval(variant)
  /\ detectionCallbacks = <<>>
  /\ frameCount = 0
  /\ lastDetection = NoDate
  /\ lastDetectionTime = 0
  /\ model = FALSE
  /\ timers = {}
  /\ probes = [u \in Urls |-> 0]
  /\ initWait = 0
  /\ ticks = [fresh |-> 0, stale |-> 0]
  /\ now = Epoch
  /\ result = Ret(None, FALSE, None)
  /\ stopped = FALSE
  /\ lastPublish = NoPublish
  /\ emits = [prev |-> NoDate, last |-> NoDate]
  /\ calls = 0
  /\ lastFrameData = NoFrame
  /\ fetch = IdleFetch
  /\ calc = NoCalc

(* ------------------- lifecycle: start / stop -------------------------- *)
\* The lifecycle fields as one record, so that updateSettings can run
\* stopDetection and startDetection back to back in one step.
Ctl == [isRunning |-> isRunning, intervalId |-> intervalId, timers |-> timers,
        probes |-> probes, initWait |-> initWait, ticks |-> ticks,
        result |-> result, stopped |-> stopped]

RECURSIVE SumOver(_, _)
SumOver(f, S) ==
  IF S = {} THEN 0
  ELSE LET u == CHOOSE x \in S : TRUE IN f[u] + SumOver(f, S \ {u})

\* startDetection calls that have not returned yet
Pending(c) == c.initWait + SumOver(c.probes, Urls)

\* startDetection without its `if (this.isRunning)` early return
startDetectionUnguarded(c, url) ==
  IF variant = "Animal" /\ ~model
    THEN [c EXCEPT !.isRunning = TRUE, !.stopped = FALSE, !.initWait = @ + 1]
    ELSE [c EXCEPT !.isRunning = TRUE, !.stopped = FALSE, !.probes[url] = @ + 1]

\* startDetection up to its first await
startDetection(c, url) ==
  IF c.isRunning
    THEN [c EXCEPT !.result = Ret("start", FALSE, "Detection already running")]
    ELSE IF variant = "Animal" /\ ~model
      THEN [c EXCEPT !.isRunning = TRUE, !.stopped = FALSE, !.initWait = @ + 1]
      ELSE [c EXCEPT !.isRunning = TRUE, !.stopped = FALSE, !.probes[url] = @ + 1]

\* stopDetection without its `if (!this.isRunning)` early return
stopDetectionUnguarded(c) ==
  [c EXCEPT !.isRunning = FALSE,
            !.timers = {t \in c.timers : t.id # c.intervalId},
            !.intervalId = NoTimer,
            !.ticks = [fresh |-> 0, stale |-> c.ticks.stale + c.ticks.fresh],
            !.stopped = TRUE,
            !.result = Ret("stop", TRUE, "Detection stopped successfully")]

stopDetection(c) ==
  IF ~c.isRunning
    THEN [c EXCEPT !.result = Ret("stop", FALSE, "Detection not running")]
    ELSE [c EXCEPT !.isRunning = FALSE,
                   !.timers = {t \in c.timers : t.id # c.intervalId},
                   !.intervalId = NoTimer,
                   !.ticks = [fresh |-> 0, stale |-> c.ticks.stale + c.ticks.fresh],
                   !.stopped = TRUE,
                   !.result = Ret("stop", TRUE, "Detection stopped successfully")]

SetCtl(c) ==
  /\ isRunning' = c.isRunning
  /\ intervalId' = c.intervalId
  /\ timers' = c.timers
  /\ probes' = c.probes
  /\ initWait' = c.initWait
  /\ ticks' = c.ticks
  /\ result' = c.result
  /\ stopped' = c.stopped

StartDetection ==
  /\ calls < MaxCalls /\ calls' = calls + 1
  /\ isRunning \/ Cardinality(timers) + Pending(Ctl) < MaxTimers
  /\ SetCtl(startDetection(Ctl, cameraUrl))
  /\ UNCHANGED <<calc, fetch, lastFrameData, variant, cameraUrl, detectionInterval, detectionCallbacks,
                 frameCount, lastDetection, lastDetectionTime, model, now,
                 lastPublish, emits>>

StopDetection ==
  /\ calls < MaxCalls /\ calls' = calls + 1
  /\ SetCtl(stopDetection(Ctl))
  /\ UNCHANGED <<calc, fetch, lastFrameData, variant, cameraUrl, detectionInterval, detectionCallbacks,
                 frameCount, lastDetection, lastDetectionTime, model, now,
                 lastPublish, emits>>

(* ------------- startDetection after its awaits ------------------------ *)
\* `await this.initializeModel()` returns: the probe is issued against the
\* camera URL of that moment.  The model file may or may not have been there.
InitializeModelDone(loaded) ==
  /\ variant = "Animal"
  /\ initWait > 0
  /\ initWait' = initWait - 1
  /\ probes' = [probes EXCEPT ![cameraUrl] = @ + 1]
  /\ model' = (model \/ loaded)
  /\ UNCHANGED <<calc, fetch, lastFrameData, stopped, calls, variant, isRunning, intervalId, cameraUrl, detectionInterval,
                 detectionCallbacks, frameCount, lastDetection,
                 lastDetectionTime, timers, ticks, now, result, lastPublish,
                 emits>>

\* the constructor's initializeModel() or the background download completes
ModelLoaded ==
  /\ variant = "Animal"
  /\ ~model
  /\ model' = TRUE
  /\ UNCHANGED <<calc, fetch, lastFrameData, stopped, calls, variant, isRunning, intervalId, cameraUrl, detectionInterval,
                 detectionCallbacks, frameCount, lastDetection,
                 lastDetectionTime, timers, probes, initWait, ticks, now,
                 result, lastPublish, emits>>

NewTimerId ==
  CHOOSE i \in 1..(MaxTimers + 1) :
    i \notin ({t.id : t \in timers} \cup {intervalId})

\* the probe failed: only SimpleRealDetection resets isRunning
ProbeFailed(u) ==
  /\ probes[u] > 0
  /\ probes' = [probes EXCEPT ![u] = @ - 1]
  /\ isRunning' = IF variant = "Simple" THEN FALSE ELSE isRunning
  /\ result' = Ret("start", FALSE, "Camera connection failed")
  /\ UNCHANGED <<calc, fetch, lastFrameData, stopped, calls, variant, intervalId, cameraUrl, detectionInterval,
                 detectionCallbacks, frameCount, lastDetection,
                 lastDetectionTime, model, timers, initWait, ticks, now,
                 lastPublish, emits>>

\* the probe succeeded: setInterval, return success
ProbeSucceeded(u) ==
  /\ probes[u] > 0
  /\ probes' = [probes EXCEPT ![u] = @ - 1]
  /\ intervalId' = NewTimerId
  /\ timers' = timers \cup {[id |-> NewTimerId, interval |-> detectionInterval,
                             due |-> now + detectionInterval]}
  /\ result' = Ret("start", TRUE, "started successfully")
  /\ UNCHANGED <<calc, fetch, lastFrameData, stopped, calls, variant, isRunning, cameraUrl, detectionInterval,
                 detectionCallbacks, frameCount, lastDetection,
                 lastDetectionTime, model, initWait, ticks, now, lastPublish,
                 emits>>

(* --------------------------- settings --------------------------------- *)
\* a field that is absent (or falsy) is "" for the URL and 0 for the interval
SettingsInputs == [cameraUrl : Urls \cup {""}, detectionInterval : Intervals \cup {0}]

\* updateSettings assigning settings.cameraUrl without testing it
UpdateSettingsUnconditional(s) ==
  LET url == s.cameraUrl
      int == IF s.detectionInterval # 0 THEN s.detectionInterval
             ELSE detectionInterval
      restart == variant # "Simple" /\ s.detectionInterval # 0 /\ isRunning
      c == IF restart THEN startDetection(stopDetection(Ctl), url) ELSE Ctl
  IN /\ calls < MaxCalls /\ calls' = calls + 1
     /\ Cardinality(c.timers) + Pending(c) <= MaxTimers
     /\ cameraUrl' = url
     /\ detectionInterval' = int
     /\ SetCtl(c)
     /\ UNCHANGED <<calc, fetch, lastFrameData, variant, detectionCallbacks,
                    frameCount, lastDetection, lastDetectionTime, model, now,
                    lastPublish, emits>>

\* updateSettings; the two larger services restart when an interval is given
UpdateSettings(s) ==
  LET url == IF s.cameraUrl # "" THEN s.cameraUrl ELSE cameraUrl
      int == IF s.detectionInterval # 0 THEN s.detectionInterval
             ELSE detectionInterval
      restart == variant # "Simple" /\ s.detectionInterval # 0 /\ isRunning
      c == IF restart THEN startDetection(stopDetection(Ctl), url) ELSE Ctl
  IN /\ calls < MaxCalls /\ calls' = calls + 1
     /\ Cardinality(c.timers) + Pending(c) <= MaxTimers
     /\ cameraUrl' = url
     /\ detectionInterval' = int
     /\ SetCtl(c)
     /\ UNCHANGED <<calc, fetch, lastFrameData, variant, detectionCallbacks, frameCount, lastDetection,
                    lastDetectionTime, model, now, lastPublish, emits>>

(* ------------------------- subscribers -------------------------------- *)
OnDetection(cb) ==
  /\ calls < MaxCalls /\ calls' = calls + 1
  /\ Len(detectionCallbacks) < MaxCallbacks
  /\ detectionCallbacks' = Append(detectionCallbacks, cb)
  /\ UNCHANGED <<calc, fetch, lastFrameData, stopped, variant, isRunning, intervalId, cameraUrl, detectionInterval,
                 frameCount, lastDetection, lastDetectionTime, model, timers,
                 probes, initWait, ticks, now, result, lastPublish, emits>>

RECURSIVE Filter(_, _)
Filter(cbs, cb) ==
  IF cbs = <<>> THEN <<>>
  ELSE (IF Head(cbs) # cb THEN <<Head(cbs)>> ELSE <<>>) \o Filter(Tail(cbs), cb)

RemoveDetectionCallback(cb) ==
  /\ calls < MaxCalls /\ calls' = calls + 1
  /\ detectionCallbacks' = Filter(detectionCallbacks, cb)
  /\ UNCHANGED <<calc, fetch, lastFrameData, stopped, variant, isRunning, intervalId, cameraUrl, detectionInterval,
                 frameCount, lastDetection, lastDetectionTime, model, timers,
                 probes, initWait, ticks, now, result, lastPublish, emits>>

\* notifyDetections with one try/catch around the whole loop: the first
\* throwing callback ends the delivery
RECURSIVE notifyDetectionsOneTry(_)
notifyDetectionsOneTry(cbs) ==
  IF cbs = <<>> THEN [delivered |-> <<>>, caught |-> 0, escaped |-> FALSE]
  ELSE IF Throws(Head(cbs))
    THEN [delivered |-> <<Head(cbs)>>, caught |-> 1, escaped |-> FALSE]
    ELSE LET rest == notifyDetectionsOneTry(Tail(cbs))
         IN [delivered |-> <<Head(cbs)>> \o rest.delivered,
             caught |-> rest.caught, escaped |-> rest.escaped]

\* notifyDetections calling each distinct callback once, however often it
\* was registered
RECURSIVE notifyDetectionsDistinct(_)
notifyDetectionsDistinct(cbs) ==
  IF cbs = <<>> THEN [delivered |-> <<>>, caught |-> 0, escaped |-> FALSE]
  ELSE LET rest == notifyDetectionsDistinct(Filter(Tail(cbs), Head(cbs)))
       IN [delivered |-> <<Head(cbs)>> \o rest.delivered,
           caught |-> (IF Throws(Head(cbs)) THEN 1 ELSE 0) + rest.caught,
           escaped |-> rest.escaped]

\* notifyDetections: forEach over the callbacks, each call in its own try/catch
RECURSIVE notifyDetections(_)
notifyDetections(cbs) ==
  IF cbs = <<>> THEN [delivered |-> <<>>, caught |-> 0, escaped |-> FALSE]
  ELSE LET rest == notifyDetections(Tail(cbs))
       IN [delivered |-> <<Head(cbs)>> \o rest.delivered,
           caught |-> (IF Throws(Head(cbs)) THEN 1 ELSE 0) + rest.caught,
           escaped |-> rest.escaped]

(* ----------------------- timer and ticks ------------------------------ *)
InFlight == ticks.fresh + ticks.stale

\* the interval callback starts: it counts the frame and awaits the analysis
TimerFire(t) ==
  /\ t \in timers
  /\ t.due = now
  /\ InFlight < MaxInFlight
  /\ timers' = (timers \ {t}) \cup {[t EXCEPT !.due = now + t.interval]}
  /\ ticks' = [ticks EXCEPT !.fresh = @ + 1]
  /\ frameCount' = IF variant = "Simple" THEN frameCount + 1 ELSE frameCount
  /\ UNCHANGED <<calc, lastFrameData, stopped, calls, variant, isRunning, intervalId, cameraUrl, detectionInterval,
                 detectionCallbacks, lastDetection, lastDetectionTime, model,
                 probes, initWait, now, result, lastPublish, emits>>

\* what the camera and the image analysis give one tick
GoodFrame == [fetched |-> TRUE, bytes |-> MinFrameBytes,
              hasSignificantContent |-> TRUE,
              confidence |-> MinConfidence + 5, brightness |-> MinBrightness + 70]
TickInputs ==
  { GoodFrame,
    [GoodFrame EXCEPT !.fetched = FALSE, !.bytes = 0],
    [GoodFrame EXCEPT !.bytes = 0],
    [GoodFrame EXCEPT !.bytes = MinFrameBytes - 1],
    [GoodFrame EXCEPT !.hasSignificantContent = FALSE],
    [GoodFrame EXCEPT !.confidence = MinConfidence],
    [GoodFrame EXCEPT !.brightness = MinBrightness] }

\* analyzeFrame without the cooldown test
analyzeFrameNoCooldown(o, lastTime, t) ==
  /\ o.fetched
  /\ o.bytes >= MinFrameBytes
  /\ o.hasSignificantContent
  /\ o.confidence > MinConfidence
  /\ o.brightness > MinBrightness

\* analyzeFrame without the test of the body length
analyzeFrameNoSizeTest(o, lastTime, t) ==
  /\ o.fetched
  /\ o.hasSignificantContent
  /\ o.confidence > MinConfidence
  /\ o.brightness > MinBrightness
  /\ t - lastTime > detectionCooldown

\* SimpleRealDetection.analyzeFrame: does this tick emit a detection?
analyzeFrame(o, lastTime, t) ==
  /\ o.fetched
  /\ o.bytes >= MinFrameBytes
  /\ o.hasSignificantContent
  /\ o.confidence > MinConfidence
  /\ o.brightness > MinBrightness
  /\ t - lastTime > detectionCooldown

\* processFrame / processFrameWithRealAnalysis: a fetched frame whose
\* analysis reports an animal gives a non-empty list; no cooldown
processFrame(o) == o.fetched /\ o.hasSignificantContent

\* the interval callback's `detections && detections.length > 0`
Found(o) ==
  IF variant = "Simple" THEN analyzeFrame(o, lastDetectionTime, now)
  ELSE processFrame(o)

\* the interval callback without its try/catch around a throwing
\* analysis: the rejection ends the process and its timers with it
TickFinishUncaught(stale, o) ==
  /\ IF stale THEN ticks.stale > 0 ELSE ticks.fresh > 0
  /\ ticks' = IF stale THEN [ticks EXCEPT !.stale = @ - 1]
              ELSE [ticks EXCEPT !.fresh = @ - 1]
  /\ timers' = IF o.fetched THEN timers ELSE {}
  /\ UNCHANGED <<calc, lastFrameData, stopped, calls, variant, isRunning,
                 intervalId, cameraUrl, detectionInterval, detectionCallbacks,
                 frameCount, lastDetection, lastDetectionTime, model,
                 probes, initWait, now, result, lastPublish, emits>>

\* the interval callback with the cooldown timestamp written on every frame
\* that was analysed, detection or not
TickFinishStampsEveryFrame(stale, o) ==
  LET found == Found(o)
      n == notifyDetections(detectionCallbacks)
  IN /\ IF stale THEN ticks.stale > 0 ELSE ticks.fresh > 0
     /\ ticks' = IF stale THEN [ticks EXCEPT !.stale = @ - 1]
                 ELSE [ticks EXCEPT !.fresh = @ - 1]
     /\ IF found
        THEN /\ lastPublish' = [registered |-> detectionCallbacks,
                                delivered |-> n.delivered, caught |-> n.caught,
                                escaped |-> n.escaped, stale |-> stale]
             /\ IF variant = "Simple"
                THEN /\ lastDetectionTime' = now
                     /\ emits' = [prev |-> emits.last, last |-> now]
                     /\ lastDetection' = IF n.escaped THEN lastDetection ELSE now
                ELSE UNCHANGED <<lastDetectionTime, emits, lastDetection>>
        ELSE /\ UNCHANGED <<lastPublish, emits, lastDetection>>
             /\ lastDetectionTime' =
                  IF variant = "Simple" /\ o.fetched /\ o.bytes >= MinFrameBytes
                    THEN now ELSE lastDetectionTime
     /\ lastFrameData' = IF variant = "Real" /\ o.fetched /\ o.bytes > 0
                         THEN "frame" ELSE lastFrameData
     /\ UNCHANGED <<calc, stopped, calls, variant, isRunning, intervalId, cameraUrl,
                    detectionInterval, detectionCallbacks, frameCount, model,
                    timers, probes, initWait, now, result>>

\* the awaited analysis of one tick completes and the callback runs to its end
TickFinish(stale, o) ==
  LET found == Found(o)
      n == notifyDetections(detectionCallbacks)
  IN /\ IF stale THEN ticks.stale > 0 ELSE ticks.fresh > 0
     /\ ticks' = IF stale THEN [ticks EXCEPT !.stale = @ - 1]
                 ELSE [ticks EXCEPT !.fresh = @ - 1]
     /\ IF found
        THEN /\ lastPublish' = [registered |-> detectionCallbacks,
                                delivered |-> n.delivered, caught |-> n.caught,
                                escaped |-> n.escaped, stale |-> stale]
             /\ IF variant = "Simple"
                THEN /\ lastDetectionTime' = now
                     /\ emits' = [prev |-> emits.last, last |-> now]
                     /\ lastDetection' = IF n.escaped THEN lastDetection ELSE now
                ELSE UNCHANGED <<lastDetectionTime, emits, lastDetection>>
        ELSE UNCHANGED <<lastPublish, lastDetectionTime, emits, lastDetection>>
     /\ lastFrameData' = IF variant = "Real" /\ o.fetched /\ o.bytes > 0
                         THEN "frame" ELSE lastFrameData
     /\ UNCHANGED <<calc, stopped, calls, variant, isRunning, intervalId, cameraUrl,
                    detectionInterval, detectionCallbacks, frameCount, model,
                    timers, probes, initWait, now, result>>

\* Time passes only when no timer is due.  A pending probe or frame fetch may
\* last any number of steps: the axios timeouts (5 to 10 s per request) only
\* rule out some of these schedules, they add none.
AdvanceTime(limit) ==
  /\ now < Epoch + limit
  /\ \A t \in timers : t.due > now
  /\ now' = now + 1
  /\ UNCHANGED <<calc, fetch, lastFrameData, stopped, calls, variant, isRunning, intervalId, cameraUrl, detectionInterval,
                 detectionCallbacks, frameCount, lastDetection,
                 lastDetectionTime, model, timers, probes, initWait, ticks,
                 result, lastPublish, emits>>

Next ==
  \/ StartDetection
  \/ StopDetection
  \/ \E loaded \in BOOLEAN : InitializeModelDone(loaded)
  \/ ModelLoaded
  \/ \E u \in Urls : ProbeFailed(u)
  \/ \E u \in Urls : ProbeSucceeded(u)
  \/ \E s \in SettingsInputs : UpdateSettings(s)
  \/ \E cb \in Callbacks : OnDetection(cb)
  \/ \E cb \in Callbacks : RemoveDetectionCallback(cb)
  \/ \E t \in timers : TimerFire(t) /\ UNCHANGED fetch
  \/ \E stale \in BOOLEAN, o \in TickInputs : TickFinish(stale, o) /\ UNCHANGED fetch
  \/ AdvanceTime(Horizon)

Spec == Init /\ [][Next]_vars

(* SimpleRealDetection over a time span longer than its cooldown window,   *)
(* with one subscriber registered before the start (test-detection.js).   *)
InitCooldown ==
  /\ variant = "Simple"
  /\ isRunning = FALSE
  /\ intervalId = NoTimer
  /\ cameraUrl = "camA"
  /\ detectionInterval = SimpleInterval
  /\ detectionCallbacks = <<"cbOk">>
  /\ frameCount = 0
  /\ lastDetection = NoDate
  /\ lastDetectionTime = 0
  /\ model = FALSE
  /\ timers = {}
  /\ probes = [u \in Urls |-> 0]
  /\ initWait = 0
  /\ ticks = [fresh |-> 0, stale |-> 0]
  /\ now = Epoch
  /\ result = Ret(None, FALSE, None)
  /\ stopped = FALSE
  /\ lastPublish = NoPublish
  /\ emits = [prev |-> NoDate, last |-> NoDate]
  /\ calls = 0
  /\ lastFrameData = NoFrame
  /\ fetch = IdleFetch
  /\ calc = NoCalc

NextCooldown ==
  \/ StartDetection
  \/ StopDetection
  \/ \E u \in Urls : ProbeFailed(u)
  \/ \E u \in Urls : ProbeSucceeded(u)
  \/ \E s \in SettingsInputs : UpdateSettings(s)
  \/ \E t \in timers : TimerFire(t) /\ UNCHANGED fetch
  \/ \E stale \in BOOLEAN, o \in TickInputs : TickFinish(stale, o) /\ UNCHANGED fetch
  \/ AdvanceTime(CooldownHorizon)

SpecCooldown == InitCooldown /\ [][NextCooldown]_vars

(* ===================== properties of the lifecycle ==================== *)
(* ------------------- one tick, request by request -------------------- *)
\* SpecFrame follows the frame request of one tick at a time through the
\* candidate URLs; a tick ends before the timer fires again.

\* analyzeFrame tries shot.jpg, snapshot.jpg, image.jpg, capture.jpg and the
\* base URL; processFrame and processFrameWithRealAnalysis ask cameraUrl only
CandidateCount(v) == IF v = "Simple" THEN 5 ELSE 1

\* the suffixes analyzeFrame appends to cameraUrl, in the order it tries them
CameraUrls == <<"/shot.jpg", "/snapshot.jpg", "/image.jpg", "/capture.jpg", "">>

\* body lengths of a request that resolved; 0 is a 200 with an empty body
FrameSizes == {0, MinFrameBytes - 1, MinFrameBytes}

\* what the image analysis can say about a frame that was received
AnalysisInputs == {o \in TickInputs : o.fetched /\ o.bytes = MinFrameBytes}

\* the interval callback starts and issues the request to the first URL
FrameBegin ==
  /\ fetch.pc = "idle"
  /\ \E t \in timers : TimerFire(t)
  /\ fetch' = [fetch EXCEPT !.pc = "try", !.idx = 1]

\* one axios.get of the loop answers, or fails or times out
TryUrl(ok, size) ==
  /\ fetch.pc = "try"
  /\ fetch' = IF ok THEN [fetch EXCEPT !.pc = "got", !.bytes = size]
              ELSE IF fetch.idx < CandidateCount(variant)
                   THEN [fetch EXCEPT !.idx = @ + 1]
                   ELSE [fetch EXCEPT !.pc = "failed"]
  /\ UNCHANGED <<calc, lastFrameData, stopped, calls, variant, isRunning,
                 intervalId, cameraUrl, detectionInterval, detectionCallbacks,
                 frameCount, lastDetection, lastDetectionTime, model, timers,
                 probes, initWait, ticks, now, result, lastPublish, emits>>

\* `response` as the code after the loop sees it, keeping the response of an
\* earlier tick when every request failed
FrameInputStale(f, a) ==
  [a EXCEPT !.fetched = TRUE,
            !.bytes = IF f.pc = "got" THEN f.bytes ELSE MinFrameBytes]

\* `response` as the code after the loop sees it: undefined when every
\* request failed, else the body of the first one that answered
FrameInput(f, a) ==
  [a EXCEPT !.fetched = (f.pc = "got"),
            !.bytes = IF f.pc = "got" THEN f.bytes ELSE 0]

Outcome(o) ==
  IF ~o.fetched THEN "unreachable"
  ELSE IF variant = "Simple" /\ o.bytes < MinFrameBytes THEN "small"
  ELSE IF Found(o) THEN "detected" ELSE "quiet"

\* the rest of the tick after the loop: analysis, cooldown test, publishing
FrameFinish(a) ==
  LET o == FrameInput(fetch, a)
  IN /\ fetch.pc \in {"got", "failed"}
     /\ TickFinish(ticks.stale > 0, o)
     /\ fetch' = [IdleFetch EXCEPT !.last = Outcome(o)]

\* subscribers are registered before the service is started
InitFrame ==
  /\ variant \in Variants
  /\ isRunning = FALSE
  /\ intervalId = NoTimer
  /\ cameraUrl = "camA"
  /\ detectionInterval = DefaultInterval(variant)
  /\ detectionCallbacks \in {<<"cbOk">>, <<"cbThrow", "cbOk">>}
  /\ frameCount = 0
  /\ lastDetection = NoDate
  /\ lastDetectionTime = 0
  /\ model = FALSE
  /\ timers = {}
  /\ probes = [u \in Urls |-> 0]
  /\ initWait = 0
  /\ ticks = [fresh |-> 0, stale |-> 0]
  /\ now = Epoch
  /\ result = Ret(None, FALSE, None)
  /\ stopped = FALSE
  /\ lastPublish = NoPublish
  /\ emits = [prev |-> NoDate, last |-> NoDate]
  /\ calls = 0
  /\ lastFrameData = NoFrame
  /\ fetch = IdleFetch
  /\ calc = NoCalc

NextFrame ==
  \/ StartDetection
  \/ StopDetection
  \/ \E loaded \in BOOLEAN : InitializeModelDone(loaded)
  \/ \E u \in Urls : ProbeSucceeded(u)
  \/ FrameBegin
  \/ \E ok \in BOOLEAN, size \in FrameSizes : TryUrl(ok, size)
  \/ \E a \in AnalysisInputs : FrameFinish(a)
  \/ AdvanceTime(Horizon)

SpecFrame == InitFrame /\ [][NextFrame]_vars

(* ------------------- calculateIoU ------------------------------------- *)
\* Box coordinates are multiples of 1/Unit of the frame; a quotient is kept
\* as numerator and denominator.
Unit == 20
Xs == {0, 1, 5, 10, 20}
Ys == {0, 1, 10}
Ws == {0, 5, 10, 15}
Hs == {0, 5, 10}

\* boxes as postprocessResults clamps them: x, y in [0, 1], width in
\* [0, 1 - x], height in [0, 1 - y]
Boxes ==
  {b \in [x : Xs, y : Ys, width : Ws, height : Hs] :
     b.x + b.width <= Unit /\ b.y + b.height <= Unit}

Max(a, b) == IF a >= b THEN a ELSE b
Min(a, b) == IF a <= b THEN a ELSE b
Zero == [num |-> 0, den |-> 1]
Same(p, q) == p.den # 0 /\ q.den # 0 /\ p.num * q.den = q.num * p.den
Greater(p, q) == p.den # 0 /\ q.den # 0 /\ p.num * q.den > q.num * p.den

\* calculateIoU adding box1's area twice
calculateIoUBox1Twice(box1, box2) ==
  LET x1 == Max(box1.x, box2.x)
      y1 == Max(box1.y, box2.y)
      x2 == Min(box1.x + box1.width, box2.x + box2.width)
      y2 == Min(box1.y + box1.height, box2.y + box2.height)
      intersection == (x2 - x1) * (y2 - y1)
      union == box1.width * box1.height + box1.width * box1.height
               - intersection
  IN IF x2 <= x1 \/ y2 <= y1 THEN Zero
     ELSE [num |-> intersection, den |-> union]

\* calculateIoU returning early on `<` instead of `<=`
calculateIoUStrictTest(box1, box2) ==
  LET x1 == Max(box1.x, box2.x)
      y1 == Max(box1.y, box2.y)
      x2 == Min(box1.x + box1.width, box2.x + box2.width)
      y2 == Min(box1.y + box1.height, box2.y + box2.height)
      intersection == (x2 - x1) * (y2 - y1)
      union == box1.width * box1.height + box2.width * box2.height
               - intersection
  IN IF x2 < x1 \/ y2 < y1 THEN Zero
     ELSE [num |-> intersection, den |-> union]

\* calculateIoU dividing by the sum of the areas
calculateIoUAreaSum(box1, box2) ==
  LET x1 == Max(box1.x, box2.x)
      y1 == Max(box1.y, box2.y)
      x2 == Min(box1.x + box1.width, box2.x + box2.width)
      y2 == Min(box1.y + box1.height, box2.y + box2.height)
      intersection == (x2 - x1) * (y2 - y1)
      union == box1.width * box1.height + box2.width * box2.height
  IN IF x2 <= x1 \/ y2 <= y1 THEN Zero
     ELSE [num |-> intersection, den |-> union]

calculateIoU(box1, box2) ==
  LET x1 == Max(box1.x, box2.x)
      y1 == Max(box1.y, box2.y)
      x2 == Min(box1.x + box1.width, box2.x + box2.width)
      y2 == Min(box1.y + box1.height, box2.y + box2.height)
      intersection == (x2 - x1) * (y2 - y1)
      union == box1.width * box1.height + box2.width * box2.height
               - intersection
  IN IF x2 <= x1 \/ y2 <= y1 THEN Zero
     ELSE [num |-> intersection, den |-> union]

\* every variable but calc
service == <<variant, isRunning, intervalId, cameraUrl, detectionInterval,
             detectionCallbacks, frameCount, lastDetection, lastDetectionTime,
             model, timers, probes, initWait, ticks, now, result, stopped,
             lastPublish, emits, calls, lastFrameData, fetch>>

\* an AnimalDetectionService as constructed
Constructed ==
  /\ variant = "Animal"
  /\ isRunning = FALSE
  /\ intervalId = NoTimer
  /\ cameraUrl = "camA"
  /\ detectionInterval = AnimalInterval
  /\ detectionCallbacks = <<>>
  /\ frameCount = 0
  /\ lastDetection = NoDate
  /\ lastDetectionTime = 0
  /\ model = FALSE
  /\ timers = {}
  /\ probes = [u \in Urls |-> 0]
  /\ initWait = 0
  /\ ticks = [fresh |-> 0, stale |-> 0]
  /\ now = Epoch
  /\ result = Ret(None, FALSE, None)
  /\ stopped = FALSE
  /\ lastPublish = NoPublish
  /\ emits = [prev |-> NoDate, last |-> NoDate]
  /\ calls = 0
  /\ lastFrameData = NoFrame
  /\ fetch = IdleFetch

InitIoU ==
  /\ Constructed
  /\ calc \in [op : {"calculateIoU"}, box1 : Boxes, box2 : Boxes,
                iou : {Zero}, swapped : {Zero}, done : {FALSE}]

\* the function is applied to the two boxes, in both orders
CalculateIoU ==
  /\ calc.op = "calculateIoU"
  /\ ~calc.done
  /\ calc' = [calc EXCEPT !.iou = calculateIoU(calc.box1, calc.box2),
                          !.swapped = calculateIoU(calc.box2, calc.box1),
                          !.done = TRUE]
  /\ UNCHANGED service

NextIoU == CalculateIoU

SpecIoU == InitIoU /\ [][NextIoU]_vars

(* ------------------- applyNMS ----------------------------------------- *)
nmsThreshold == [num |-> 4, den |-> 10]
confidenceThreshold == [num |-> 5, den |-> 10]

\* confidences in hundredths
Confidences == {60, 80, 90}

Box(x, y, w, h) == [x |-> x, y |-> y, width |-> w, height |-> h]
\* overlapping above, at and below the threshold, touching at a corner, and
\* clamped to width 0
NmsBoxes == {Box(0, 0, 10, 10), Box(1, 1, 10, 10), Box(5, 1, 10, 10),
             Box(0, 0, 15, 5), Box(10, 10, 10, 10), Box(20, 0, 0, 5)}

Candidates == [class : {"elephant"}, confidence : Confidences, bbox : NmsBoxes]

Lists(S, n) == UNION {[1..k -> S] : k \in 0..n}

RECURSIVE InsertReversed(_, _)
\* the comparator written as a.confidence - b.confidence
InsertReversed(d, sorted) ==
  IF sorted = <<>> THEN <<d>>
  ELSE IF Head(sorted).confidence <= d.confidence
       THEN <<Head(sorted)>> \o InsertReversed(d, Tail(sorted))
       ELSE <<d>> \o sorted

RECURSIVE InsertBeforeEqual(_, _)
\* a sort that is not stable: d goes in front of the elements of equal
\* confidence
InsertBeforeEqual(d, sorted) ==
  IF sorted = <<>> THEN <<d>>
  ELSE IF Head(sorted).confidence > d.confidence
       THEN <<Head(sorted)>> \o InsertBeforeEqual(d, Tail(sorted))
       ELSE <<d>> \o sorted

RECURSIVE Insert(_, _)
\* d goes behind every element whose confidence is not lower: the sort is
\* stable
Insert(d, sorted) ==
  IF sorted = <<>> THEN <<d>>
  ELSE IF Head(sorted).confidence >= d.confidence
       THEN <<Head(sorted)>> \o Insert(d, Tail(sorted))
       ELSE <<d>> \o sorted

RECURSIVE SortByConfidence(_)
\* detections.sort((a, b) => b.confidence - a.confidence)
SortByConfidence(ds) ==
  IF ds = <<>> THEN <<>>
  ELSE Insert(ds[Len(ds)], SortByConfidence(SubSeq(ds, 1, Len(ds) - 1)))

\* the elements of ds at the positions js, in order
RECURSIVE At(_, _)
At(ds, js) ==
  IF js = {} THEN <<>>
  ELSE LET j == CHOOSE k \in js : \A l \in js : k <= l
       IN <<ds[j]>> \o At(ds, js \ {j})

RECURSIVE NMSLoopPushInner(_, _, _, _)
\* the loop pushing also every later candidate it does not suppress
NMSLoopPushInner(ds, i, suppressed, keep) ==
  IF i > Len(ds) THEN keep
  ELSE IF i \in suppressed THEN NMSLoopPushInner(ds, i + 1, suppressed, keep)
  ELSE LET later == {j \in (i + 1)..Len(ds) : j \notin suppressed}
           hit == {j \in later :
                    Greater(calculateIoU(ds[i].bbox, ds[j].bbox), nmsThreshold)}
       IN NMSLoopPushInner(ds, i + 1, suppressed \cup hit,
                           Append(keep, ds[i]) \o At(ds, later \ hit))

RECURSIVE NMSLoopWrongThreshold(_, _, _, _)
\* the loop comparing the IoU with confidenceThreshold
NMSLoopWrongThreshold(ds, i, suppressed, keep) ==
  IF i > Len(ds) THEN keep
  ELSE IF i \in suppressed
       THEN NMSLoopWrongThreshold(ds, i + 1, suppressed, keep)
  ELSE LET later == {j \in (i + 1)..Len(ds) : j \notin suppressed}
           hit == {j \in later :
                    Greater(calculateIoU(ds[i].bbox, ds[j].bbox),
                            confidenceThreshold)}
       IN NMSLoopWrongThreshold(ds, i + 1, suppressed \cup hit,
                                Append(keep, ds[i]))

RECURSIVE NMSLoop(_, _, _, _)
\* the outer for loop from index i on; `hit` is what its inner loop adds to
\* `suppressed`
NMSLoop(ds, i, suppressed, keep) ==
  IF i > Len(ds) THEN keep
  ELSE IF i \in suppressed THEN NMSLoop(ds, i + 1, suppressed, keep)
  ELSE LET later == {j \in (i + 1)..Len(ds) : j \notin suppressed}
           hit == {j \in later :
                    Greater(calculateIoU(ds[i].bbox, ds[j].bbox), nmsThreshold)}
       IN NMSLoop(ds, i + 1, suppressed \cup hit, Append(keep, ds[i]))

applyNMS(detections) ==
  IF Len(detections) <= 1 THEN detections
  ELSE NMSLoop(SortByConfidence(detections), 1, {}, <<>>)

InitNMS ==
  /\ Constructed
  /\ calc \in [op : {"applyNMS"}, input : Lists(Candidates, MaxCandidates),
                output : {<<>>}, done : {FALSE}]

\* postprocessResults hands its candidates to applyNMS
ApplyNMS ==
  /\ calc.op = "applyNMS"
  /\ ~calc.done
  /\ calc' = [calc EXCEPT !.output = applyNMS(calc.input), !.done = TRUE]
  /\ UNCHANGED service

NextNMS == ApplyNMS

SpecNMS == InitNMS /\ [][NextNMS]_vars

(* ------------------- settings and status ------------------------------ *)
\* getStatus reporting a timer as running
getStatusByTimer ==
  IF variant = "Simple"
  THEN [isRunning |-> intervalId # NoTimer, cameraUrl |-> cameraUrl,
        detectionInterval |-> detectionInterval, frameCount |-> frameCount,
        lastDetection |-> lastDetection,
        callbackCount |-> Len(detectionCallbacks),
        mode |-> "Simple Real Detection"]
  ELSE [isRunning |-> intervalId # NoTimer, cameraUrl |-> cameraUrl,
        detectionInterval |-> detectionInterval]

\* the object getStatus returns; the two larger services report three fields
\* (RealAnimalDetectionService adds a constant mode)
getStatus ==
  IF variant = "Simple"
  THEN [isRunning |-> isRunning, cameraUrl |-> cameraUrl,
        detectionInterval |-> detectionInterval, frameCount |-> frameCount,
        lastDetection |-> lastDetection,
        callbackCount |-> Len(detectionCallbacks),
        mode |-> "Simple Real Detection"]
  ELSE [isRunning |-> isRunning, cameraUrl |-> cameraUrl,
        detectionInterval |-> detectionInterval]

\* GET /status
GetStatus ==
  /\ calls < MaxCalls /\ calls' = calls + 1
  /\ calc' = [op |-> "getStatus", status |-> getStatus]
  /\ UNCHANGED <<fetch, lastFrameData, stopped, variant, isRunning,
                 intervalId, cameraUrl, detectionInterval, detectionCallbacks,
                 frameCount, lastDetection, lastDetectionTime, model, timers,
                 probes, initWait, ticks, now, result, lastPublish, emits>>

\* SpecSettings: the services over a short time, with every call
NextSettings ==
  \/ StartDetection
  \/ StopDetection
  \/ \E loaded \in BOOLEAN : InitializeModelDone(loaded)
  \/ \E u \in Urls : ProbeFailed(u)
  \/ \E u \in Urls : ProbeSucceeded(u)
  \/ \E s \in SettingsInputs : UpdateSettings(s)
  \/ \E cb \in Callbacks : OnDetection(cb)
  \/ GetStatus
  \/ \E t \in timers : TimerFire(t) /\ UNCHANGED fetch
  \/ \E stale \in BOOLEAN, o \in TickInputs : TickFinish(stale, o) /\ UNCHANGED fetch
  \/ AdvanceTime(SettingsHorizon)

SpecSettings == Init /\ [][NextSettings]_vars

(* ------------------- postprocessResults ------------------------------- *)
\* Tensor values: box fields in pixels of the 640 x 640 input, objectness and
\* class scores in hundredths.  Emitted boxes are in units of 1/NormUnit of
\* the frame, emitted confidences in ten-thousandths.
inputSize == 640
RecordSize == 85
NumClasses == 80
NormUnit == 2 * inputSize
Undefined == -1000000

animalClasses == {20, 15, 16, 17, 18, 19, 21, 22, 23}
classNames ==
  <<"person", "bicycle", "car", "motorcycle", "airplane", "bus", "train",
    "truck", "boat", "traffic light", "fire hydrant", "stop sign",
    "parking meter", "bench", "bird", "cat", "dog", "horse", "sheep", "cow",
    "elephant", "bear", "zebra", "giraffe">>

\* data[k] of a JavaScript array: undefined beyond its length
Read(data, k) == IF k < Len(data) THEN data[k + 1] ELSE Undefined

\* Math.max(0, Math.min(limit, v)) on numbers
Clamp(limit, v) == Max(0, Min(limit, v))

\* the class loop written with >=, which keeps the last of equal maxima
MaxClassLast(data, offset) ==
  LET score(j) == Read(data, offset + 5 + j)
      above == {j \in 0..(NumClasses - 1) : score(j) # Undefined /\ score(j) >= 0}
  IN IF above = {} THEN [score |-> 0, index |-> -1]
     ELSE LET m == CHOOSE j \in above :
                     \A k \in above :
                       score(k) < score(j) \/ (score(k) = score(j) /\ k <= j)
          IN [score |-> score(m), index |-> m]

\* what the loop over the 80 class scores leaves in maxClassScore and
\* maxClassIndex: it starts from 0 and -1 and replaces them on `>` only, so
\* it ends on the first of the largest scores above 0; a comparison with
\* undefined is false
MaxClass(data, offset) ==
  LET score(j) == Read(data, offset + 5 + j)
      above == {j \in 0..(NumClasses - 1) : score(j) # Undefined /\ score(j) > 0}
  IN IF above = {} THEN [score |-> 0, index |-> -1]
     ELSE LET m == CHOOSE j \in above :
                     \A k \in above :
                       score(k) < score(j) \/ (score(k) = score(j) /\ k >= j)
          IN [score |-> score(m), index |-> m]

\* the box of an accepted anchor, with min(1, width) as the width's bound
ConvertUnclampedWidth(x, y, w, h) ==
  LET normalizedX == Clamp(NormUnit, 2 * x - w)
      normalizedY == Clamp(NormUnit, 2 * y - h)
  IN [x |-> normalizedX, y |-> normalizedY,
      width |-> Clamp(NormUnit, 2 * w),
      height |-> Clamp(NormUnit, 2 * h)]

\* centre format to corner format, normalised and clamped
Convert(x, y, w, h) ==
  LET normalizedX == Clamp(NormUnit, 2 * x - w)
      normalizedY == Clamp(NormUnit, 2 * y - h)
  IN [x |-> normalizedX, y |-> normalizedY,
      width |-> Clamp(NormUnit - normalizedX, 2 * w),
      height |-> Clamp(NormUnit - normalizedY, 2 * h)]

\* one pass of the loop over the records: the detection pushed, if any
Decode(data, i) ==
  LET offset == i * RecordSize
      confidence == Read(data, offset + 4)
      best == MaxClass(data, offset)
      totalConfidence == confidence * best.score
  IN IF confidence = Undefined THEN <<>>
     ELSE IF confidence * confidenceThreshold.den
               < confidenceThreshold.num * 100 THEN <<>>
     ELSE IF /\ totalConfidence * confidenceThreshold.den
                  >= confidenceThreshold.num * 10000
             /\ best.index \in animalClasses
          THEN <<[class |-> classNames[best.index + 1],
                  confidence |-> totalConfidence,
                  bbox |-> Convert(Read(data, offset), Read(data, offset + 1),
                                   Read(data, offset + 2),
                                   Read(data, offset + 3))]>>
          ELSE <<>>

RECURSIVE DecodeFrom(_, _)
\* for (let i = 0; i < data.length / 85; i++)
DecodeFrom(data, i) ==
  IF i * RecordSize >= Len(data) THEN <<>>
  ELSE Decode(data, i) \o DecodeFrom(data, i + 1)

\* results.output0 || results.output || Object.values(results)[0]
NoTensor == [present |-> FALSE, hasData |-> FALSE, data |-> <<>>]
OutputOf(results) == IF results.key = None THEN NoTensor ELSE results.tensor

\* the candidates before NMS; [] when there is no output or no data
candidatesOf(results) ==
  LET output == OutputOf(results)
  IN IF ~output.present \/ ~output.hasData THEN <<>>
     ELSE DecodeFrom(output.data, 0)

postprocessResults(results) == applyNMS(candidatesOf(results))

\* ---- model outputs explored
AnchorBoxes ==
  { <<320, 320, 320, 320>>,    \* inside the frame
    <<20, 600, 100, 100>>,     \* over the left and the bottom edge
    <<700, 320, 20, 20>>,      \* beyond the right edge
    <<320, 320, -10, 1000>> }  \* negative width, height above the frame

\* objectness and the class scores that are not 0
AnchorScores ==
  { [objectness |-> 90, scores |-> {<<20, 90>>}],
    [objectness |-> 40, scores |-> {<<20, 100>>}],
    [objectness |-> 50, scores |-> {<<20, 100>>}],
    [objectness |-> 90, scores |-> {<<20, 55>>}],
    [objectness |-> 90, scores |-> {<<0, 90>>}],
    [objectness |-> 90, scores |-> {<<14, 90>>, <<20, 80>>}],
    [objectness |-> 90, scores |-> {<<15, 90>>, <<16, 90>>}] }

Score(a, j) ==
  IF \E p \in a.scores : p[1] = j
  THEN (CHOOSE p \in a.scores : p[1] = j)[2] ELSE 0

\* the 85 numbers of one anchor
Flatten(box, a) ==
  <<box[1], box[2], box[3], box[4], a.objectness>>
    \o [j \in 1..NumClasses |-> Score(a, j - 1)]

RECURSIVE Concat(_)
Concat(seqs) == IF seqs = <<>> THEN <<>> ELSE Head(seqs) \o Concat(Tail(seqs))

\* every box with the scores of a plain elephant, and every score pattern on
\* the box inside the frame
PlainBox == <<320, 320, 320, 320>>
PlainScores == [objectness |-> 90, scores |-> {<<20, 90>>}]
Anchors ==
  {Flatten(b, PlainScores) : b \in AnchorBoxes}
    \cup {Flatten(PlainBox, a) : a \in AnchorScores}

\* what follows the last complete record: nothing, one number, or the first
\* 30 numbers of a record
Tails ==
  { <<>>, <<320>>,
    SubSeq(Flatten(PlainBox, PlainScores), 1, 30) }

Tensors ==
  {NoTensor, [present |-> TRUE, hasData |-> FALSE, data |-> <<>>]}
    \cup {[present |-> TRUE, hasData |-> TRUE, data |-> Concat(as) \o t] :
            as \in Lists(Anchors, MaxAnchors), t \in Tails}

Results ==
  {[key |-> None, tensor |-> NoTensor]}
    \cup [key : {"output0", "output", "boxes"}, tensor : Tensors]

InitPost ==
  /\ Constructed
  /\ calc \in [op : {"postprocessResults"}, results : Results,
               candidates : {<<>>}, output : {<<>>}, done : {FALSE}]

\* detectAnimalsInFrame hands the model's results to postprocessResults
PostprocessResults ==
  /\ calc.op = "postprocessResults"
  /\ ~calc.done
  /\ calc' = [calc EXCEPT !.candidates = candidatesOf(calc.results),
                          !.output = postprocessResults(calc.results),
                          !.done = TRUE]
  /\ UNCHANGED service

NextPost == PostprocessResults

SpecPost == InitPost /\ [][NextPost]_vars

(* ------------- processFrame: model or enhanced analysis --------------- *)
\* SpecStrategy follows one tick of AnimalDetectionService at a time, from
\* the interval callback through its frame request to the analysis it runs,
\* while the model file is loaded at any moment.

\* no tick has been followed yet
IdleStrategy == [pc |-> "idle", idx |-> 0, bytes |-> 0, last |-> None,
                 loaded |-> FALSE, strategy |-> None]

\* processFrame with the analysis fixed before any model was loaded
StrategyCached(o) ==
  IF ~o.fetched THEN None ELSE "enhancedImageAnalysis"

\* processFrame after its axios.get: `if (this.model)` picks
\* detectAnimalsInFrame, else enhancedImageAnalysis; a failed request goes
\* to the catch and runs neither
Strategy(o) ==
  IF ~o.fetched THEN None
  ELSE IF model THEN "detectAnimalsInFrame" ELSE "enhancedImageAnalysis"

\* the interval callback starts and calls processFrame, which asks the camera
ProcessFrameBegin ==
  /\ fetch.pc = "idle"
  /\ \E t \in timers : TimerFire(t)
  /\ fetch' = [fetch EXCEPT !.pc = "try", !.idx = 1, !.loaded = model,
                            !.strategy = None]

\* the request has answered or failed: processFrame runs to its end and the
\* interval callback publishes what it returned
ProcessFrameEnd(a) ==
  LET o == FrameInput(fetch, a)
  IN /\ fetch.pc \in {"got", "failed"}
     /\ TickFinish(ticks.stale > 0, o)
     /\ fetch' = [fetch EXCEPT !.pc = "idle", !.idx = 0, !.bytes = 0,
                               !.last = Outcome(o), !.strategy = Strategy(o)]

InitStrategy ==
  /\ variant = "Animal"
  /\ isRunning = FALSE
  /\ intervalId = NoTimer
  /\ cameraUrl = "camA"
  /\ detectionInterval = DefaultInterval(variant)
  /\ detectionCallbacks = <<"cbOk">>
  /\ frameCount = 0
  /\ lastDetection = NoDate
  /\ lastDetectionTime = 0
  /\ model = FALSE
  /\ timers = {}
  /\ probes = [u \in Urls |-> 0]
  /\ initWait = 0
  /\ ticks = [fresh |-> 0, stale |-> 0]
  /\ now = Epoch
  /\ result = Ret(None, FALSE, None)
  /\ stopped = FALSE
  /\ lastPublish = NoPublish
  /\ emits = [prev |-> NoDate, last |-> NoDate]
  /\ calls = 0
  /\ lastFrameData = NoFrame
  /\ fetch = IdleStrategy
  /\ calc = NoCalc

NextStrategy ==
  \/ StartDetection
  \/ StopDetection
  \/ \E loaded \in BOOLEAN : InitializeModelDone(loaded)
  \/ ModelLoaded
  \/ \E u \in Urls : ProbeSucceeded(u)
  \/ ProcessFrameBegin
  \/ \E ok \in BOOLEAN, size \in FrameSizes : TryUrl(ok, size)
  \/ \E a \in AnalysisInputs : ProcessFrameEnd(a)
  \/ AdvanceTime(Horizon)

SpecStrategy == InitStrategy /\ [][NextStrategy]_vars

(* ------------- bounding boxes handed to the subscribers --------------- *)
\* SpecBox runs the analysis of one tick that found an animal and publishes
\* its detections.  Math.random() is drawn on a grid of 1 / RandomSteps and
\* the synthesized boxes are counted in units of 1 / BoxUnit.
RandomSteps == 20
BoxUnit == 100 * RandomSteps

\* values of Math.random(), which lies in [0, 1): numerators over RandomSteps
Randoms == {0, RandomSteps \div 2, RandomSteps - 1}

\* hundredths[1] + Math.random() * hundredths[2], in units of 1 / BoxUnit
Random(hundredths, r) == hundredths[1] * RandomSteps + r * hundredths[2]

\* the bbox literal of SimpleRealDetection.analyzeFrame
analyzeFrameBbox(r) ==
  [x |-> Random(<<25, 30>>, r[1]), y |-> Random(<<25, 30>>, r[2]),
   width |-> Random(<<20, 25>>, r[3]), height |-> Random(<<20, 25>>, r[4]),
   unit |-> BoxUnit]

\* the bbox literal of AnimalDetectionService.enhancedImageAnalysis
enhancedImageAnalysisBbox(r) ==
  [x |-> Random(<<20, 40>>, r[1]), y |-> Random(<<20, 40>>, r[2]),
   width |-> Random(<<20, 20>>, r[3]), height |-> Random(<<20, 20>>, r[4]),
   unit |-> BoxUnit]

\* the bbox literal of RealAnimalDetectionService.combineAnalysisResults
combineAnalysisResultsBbox(r) ==
  [x |-> Random(<<20, 40>>, r[1]), y |-> Random(<<20, 40>>, r[2]),
   width |-> Random(<<20, 30>>, r[3]), height |-> Random(<<20, 30>>, r[4]),
   unit |-> BoxUnit]

\* the boxes of the detections postprocessResults returns
RECURSIVE BboxesOf(_)
BboxesOf(detections) ==
  IF detections = <<>> THEN <<>>
  ELSE <<[x |-> Head(detections).bbox.x, y |-> Head(detections).bbox.y,
          width |-> Head(detections).bbox.width,
          height |-> Head(detections).bbox.height, unit |-> NormUnit]>>
         \o BboxesOf(Tail(detections))

\* a service of any variant that is running with one subscriber; the model
\* of AnimalDetectionService may be loaded; the tick's random draws or the
\* model's output are chosen
InitBox ==
  /\ variant \in Variants
  /\ isRunning = TRUE
  /\ intervalId = 1
  /\ cameraUrl = "camA"
  /\ detectionInterval = DefaultInterval(variant)
  /\ detectionCallbacks = <<"cbOk">>
  /\ frameCount = IF variant = "Simple" THEN 1 ELSE 0
  /\ lastDetection = NoDate
  /\ lastDetectionTime = 0
  /\ model \in {m \in BOOLEAN : m => variant = "Animal"}
  /\ timers = {[id |-> 1, interval |-> detectionInterval,
                due |-> Epoch + 2 * detectionInterval]}
  /\ probes = [u \in Urls |-> 0]
  /\ initWait = 0
  /\ ticks = [fresh |-> 1, stale |-> 0]
  /\ now = Epoch + detectionInterval
  /\ result = Ret("start", TRUE, "started successfully")
  /\ stopped = FALSE
  /\ lastPublish = NoPublish
  /\ emits = [prev |-> NoDate, last |-> NoDate]
  /\ calls = 1
  /\ lastFrameData = NoFrame
  /\ fetch = IdleFetch
  /\ calc \in IF model
              THEN [op : {"bbox"}, results : Results, bboxes : {<<>>}]
              ELSE [op : {"bbox"},
                    random : [1..4 -> Randoms], bboxes : {<<>>}]

\* the interval callback hands the detections to notifyDetections as they
\* were returned
Deliver(bboxes) ==
  /\ calc.op = "bbox"
  /\ ticks.fresh > 0
  /\ ticks' = [ticks EXCEPT !.fresh = @ - 1]
  /\ calc' = [calc EXCEPT !.bboxes = bboxes]
  /\ IF bboxes = <<>>
     THEN UNCHANGED <<lastPublish, lastDetectionTime, emits, lastDetection>>
     ELSE LET n == notifyDetections(detectionCallbacks)
          IN /\ lastPublish' = [registered |-> detectionCallbacks,
                                delivered |-> n.delivered, caught |-> n.caught,
                                escaped |-> n.escaped, stale |-> FALSE]
             /\ IF variant = "Simple"
                THEN /\ lastDetectionTime' = now
                     /\ emits' = [prev |-> emits.last, last |-> now]
                     /\ lastDetection' = now
                ELSE UNCHANGED <<lastDetectionTime, emits, lastDetection>>
  /\ UNCHANGED <<variant, isRunning, intervalId, cameraUrl, detectionInterval,
                 detectionCallbacks, frameCount, model, timers, probes,
                 initWait, now, result, stopped, calls, lastFrameData, fetch>>

AnalyzeFrame ==
  /\ variant = "Simple"
  /\ Deliver(<<analyzeFrameBbox(calc.random)>>)

EnhancedImageAnalysis ==
  /\ variant = "Animal" /\ ~model
  /\ Deliver(<<enhancedImageAnalysisBbox(calc.random)>>)

DetectAnimalsInFrame ==
  /\ variant = "Animal" /\ model
  /\ Deliver(BboxesOf(postprocessResults(calc.results)))

CombineAnalysisResults ==
  /\ variant = "Real"
  /\ Deliver(<<combineAnalysisResultsBbox(calc.random)>>)

NextBox ==
  \/ AnalyzeFrame
  \/ EnhancedImageAnalysis
  \/ DetectAnimalsInFrame
  \/ CombineAnalysisResults

SpecBox == InitBox /\ [][NextBox]_vars

(* ------------- initializeModel and the background download ------------ *)
\* SpecDownload follows the model file of an AnimalDetectionService: the
\* constructor's initializeModel(), the one startDetection awaits, the
\* setTimeout of downloadModelInBackground and the download itself.
DownloadDelay == 5     \* setTimeout(..., 5000)

\* s without its k-th element
Without(s, k) == SubSeq(s, 1, k - 1) \o SubSeq(s, k + 1, Len(s))

\* no model file; the constructor's initializeModel() awaits fileExists
NoDownload == [op |-> "initializeModel", file |-> "absent", ctor |-> TRUE,
               scheduled |-> <<>>, downloading |-> 0, started |-> 0]

InitDownload ==
  /\ Constructed
  /\ calc = NoDownload

\* initializeModel after `await this.fileExists(...)`, on the file f: an
\* absent file schedules a download and returns; InferenceSession.create
\* succeeds on a complete file, throws on a partial one, and the catch logs
initializeModel(c, f) ==
  IF f = "absent"
    THEN [c EXCEPT !.scheduled = Append(@, now + DownloadDelay),
                   !.started = @ + 1]
    ELSE c

\* the constructor's call of initializeModel() goes on after fileExists
ConstructorInitializeModel ==
  /\ calc.op = "initializeModel"
  /\ calc.ctor
  /\ calc' = [initializeModel(calc, calc.file) EXCEPT !.ctor = FALSE]
  /\ model' = (model \/ calc.file = "complete")
  /\ UNCHANGED <<variant, isRunning, intervalId, cameraUrl, detectionInterval,
                 detectionCallbacks, frameCount, lastDetection,
                 lastDetectionTime, timers, probes, initWait, ticks, now,
                 result, stopped, lastPublish, emits, calls, lastFrameData,
                 fetch>>

\* the initializeModel() that startDetection awaits returns, with or without
\* a model, and startDetection goes on to test the camera
StartInitializeModel ==
  /\ calc.op = "initializeModel"
  /\ initWait > 0
  /\ initWait' = initWait - 1
  /\ probes' = [probes EXCEPT ![cameraUrl] = @ + 1]
  /\ calc' = initializeModel(calc, calc.file)
  /\ model' = (model \/ calc.file = "complete")
  /\ UNCHANGED <<variant, isRunning, intervalId, cameraUrl, detectionInterval,
                 detectionCallbacks, frameCount, lastDetection,
                 lastDetectionTime, timers, ticks, now, result, stopped,
                 lastPublish, emits, calls, lastFrameData, fetch>>

\* a setTimeout of downloadModelInBackground fires and downloadModel runs:
\* the request fails, or the response is piped into the model file
DownloadBegins(k, ok) ==
  /\ calc.op = "initializeModel"
  /\ k \in DOMAIN calc.scheduled
  /\ calc.scheduled[k] <= now
  /\ calc' = [calc EXCEPT !.scheduled = Without(@, k),
                          !.downloading = IF ok THEN @ + 1 ELSE @,
                          !.file = IF ok /\ @ = "absent" THEN "partial" ELSE @]
  /\ UNCHANGED service

\* the write stream finishes and the session is created, or it fails and the
\* catch of the timeout callback logs
DownloadEnds(ok) ==
  /\ calc.op = "initializeModel"
  /\ calc.downloading > 0
  /\ calc' = [calc EXCEPT !.downloading = @ - 1,
                          !.file = IF ok THEN "complete" ELSE @]
  /\ model' = (model \/ ok)
  /\ UNCHANGED <<variant, isRunning, intervalId, cameraUrl, detectionInterval,
                 detectionCallbacks, frameCount, lastDetection,
                 lastDetectionTime, timers, probes, initWait, ticks, now,
                 result, stopped, lastPublish, emits, calls, lastFrameData,
                 fetch>>

NextDownload ==
  \/ StartDetection
  \/ StopDetection
  \/ ConstructorInitializeModel
  \/ StartInitializeModel
  \/ \E k \in 1..(MaxCalls + 1), ok \in BOOLEAN : DownloadBegins(k, ok)
  \/ \E ok \in BOOLEAN : DownloadEnds(ok)
  \/ \E u \in Urls : ProbeFailed(u)
  \/ \E u \in Urls : ProbeSucceeded(u)
  \/ \E t \in timers : TimerFire(t) /\ UNCHANGED fetch
  \/ \E stale \in BOOLEAN, o \in TickInputs : TickFinish(stale, o) /\ UNCHANGED fetch
  \/ AdvanceTime(Horizon)

SpecDownload == InitDownload /\ [][NextDownload]_vars

(* ------------- RealAnimalDetectionService: one tick in detail --------- *)
\* SpecHeuristic follows one tick of RealAnimalDetectionService at a time:
\* the frame request, detectMotion against the stored frame, the weighted
\* sum of combineAnalysisResults, the threshold test and the stored frame.
\* A frame is its 320x240 grayscale raster, cut down to RasterSize pixels,
\* with the scores (in hundredths) the shape, colour and texture analyses
\* give it; sharp cannot decode every body the camera sends.
RasterSize == 2
pixelThreshold == 30             \* const threshold = 30
motionThreshold == 15            \* this.motionThreshold = 0.15, hundredths
heuristicThreshold == 60         \* this.confidenceThreshold = 0.6, hundredths

\* motion scores are counted in units of 1 / MotionUnit and weighted sums in
\* units of 1 / CombinedUnit
MotionUnit == 2 * 255 * RasterSize
CombinedUnit == 100 * 100 * MotionUnit

Frame(pixels, shapes, colors, textures, earthy) ==
  [decodable |-> TRUE, pixels |-> pixels, shapes |-> shapes,
   colors |-> colors, textures |-> textures, isEarthyTone |-> earthy]

\* a body sharp rejects: an empty body, an HTML page
Undecodable ==
  [decodable |-> FALSE, pixels |-> <<>>, shapes |-> 0, colors |-> 0,
   textures |-> 0, isEarthyTone |-> FALSE]

Frames ==
  { Frame(<<0, 0>>, 100, 100, 100, TRUE),
    Frame(<<255, 255>>, 100, 100, 100, TRUE),
    Frame(<<0, 30>>, 100, 95, 100, TRUE),
    Frame(<<0, 31>>, 0, 30, 0, FALSE),
    Frame(<<255, 0>>, 20, 30, 10, FALSE),
    Undecodable }

\* this.lastFrameData = null
NullFrame == [null |-> TRUE]

Abs(n) == IF n < 0 THEN -n ELSE n

RECURSIVE TotalDiff(_, _)
TotalDiff(current, previous) ==
  IF current = <<>> THEN 0
  ELSE Abs(Head(current) - Head(previous))
         + TotalDiff(Tail(current), Tail(previous))

RECURSIVE SignificantChanges(_, _)
SignificantChanges(current, previous) ==
  IF current = <<>> THEN 0
  ELSE (IF Abs(Head(current) - Head(previous)) > pixelThreshold THEN 1 ELSE 0)
         + SignificantChanges(Tail(current), Tail(previous))

\* detectMotion without its test of this.lastFrameData: a missing previous
\* frame counts as a black one
detectMotionNoNullTest(current, last) ==
  IF ~current.decodable THEN [detected |-> FALSE, score |-> 0]
  ELSE LET previous == IF last = NullFrame THEN [i \in 1..RasterSize |-> 0]
                       ELSE last.pixels
           motionScore ==
             Min(MotionUnit,
                 2550 * SignificantChanges(current.pixels, previous)
                   + TotalDiff(current.pixels, previous))
       IN [detected |-> motionScore * 100 > motionThreshold * MotionUnit,
           score |-> motionScore]

\* detectMotion: no stored frame gives score 0; a raster sharp cannot
\* produce throws into the catch, which gives score 0; else
\* min(1, (changePercentage * 10 + avgDiff / 255) / 2)
detectMotion(current, last) ==
  IF last = NullFrame THEN [detected |-> FALSE, score |-> 0]
  ELSE IF ~current.decodable \/ ~last.decodable
    THEN [detected |-> FALSE, score |-> 0]
  ELSE LET motionScore ==
             Min(MotionUnit,
                 2550 * SignificantChanges(current.pixels, last.pixels)
                   + TotalDiff(current.pixels, last.pixels))
       IN [detected |-> motionScore * 100 > motionThreshold * MotionUnit,
           score |-> motionScore]

\* the weighted sum with the texture term left out
combineAnalysisResultsNoTexture(motion, frame) ==
  [confidence |-> 4000 * motion.score
                    + (25 * frame.shapes + 20 * frame.colors) * MotionUnit,
   animalType |-> "animal"]

\* combineAnalysisResults: 0.4 motion + 0.25 shapes + 0.2 colors +
\* 0.15 textures, and the animal type
combineAnalysisResults(motion, frame) ==
  [confidence |-> 4000 * motion.score
                    + (25 * frame.shapes + 20 * frame.colors
                         + 15 * frame.textures) * MotionUnit,
   animalType |->
     IF frame.shapes > 30 /\ frame.isEarthyTone THEN "elephant"
     ELSE IF frame.isEarthyTone /\ motion.score * 2 > MotionUnit
       THEN "large_mammal"
     ELSE "animal"]

\* the threshold test written with >=
AboveThresholdNotStrict(confidence) ==
  confidence * 100 >= heuristicThreshold * CombinedUnit

\* combinedScore.confidence > this.confidenceThreshold
AboveThreshold(confidence) ==
  confidence * 100 > heuristicThreshold * CombinedUnit

\* analyzeImageForAnimals: image.metadata() throws on a body sharp cannot
\* decode and the catch returns [] with the stored frame as it was
analyzeImageForAnimals(frame, last) ==
  IF ~frame.decodable
    THEN [detections |-> <<>>, lastFrameData |-> last, analysed |-> FALSE,
          motion |-> [detected |-> FALSE, score |-> 0], confidence |-> 0]
    ELSE LET motion == detectMotion(frame, last)
             combinedScore == combineAnalysisResults(motion, frame)
         IN [detections |->
               IF AboveThreshold(combinedScore.confidence)
                 THEN <<[class |-> combinedScore.animalType,
                         confidence |-> combinedScore.confidence]>>
                 ELSE <<>>,
             lastFrameData |-> frame, analysed |-> TRUE,
             motion |-> motion, confidence |-> combinedScore.confidence]

\* no tick has been analysed yet
NoAnalysis == [op |-> "processFrameWithRealAnalysis",
               fetched |-> FALSE, frame |-> Undecodable,
               previous |-> NullFrame, analysed |-> FALSE,
               motion |-> [detected |-> FALSE, score |-> 0],
               confidence |-> 0, detections |-> <<>>]

InitHeuristic ==
  /\ variant = "Real"
  /\ isRunning = FALSE
  /\ intervalId = NoTimer
  /\ cameraUrl = "camA"
  /\ detectionInterval = RealInterval
  /\ detectionCallbacks = <<"cbOk">>
  /\ frameCount = 0
  /\ lastDetection = NoDate
  /\ lastDetectionTime = 0
  /\ model = FALSE
  /\ timers = {}
  /\ probes = [u \in Urls |-> 0]
  /\ initWait = 0
  /\ ticks = [fresh |-> 0, stale |-> 0]
  /\ now = Epoch
  /\ result = Ret(None, FALSE, None)
  /\ stopped = FALSE
  /\ lastPublish = NoPublish
  /\ emits = [prev |-> NoDate, last |-> NoDate]
  /\ calls = 0
  /\ lastFrameData = NullFrame
  /\ fetch = IdleFetch
  /\ calc = NoAnalysis

\* the request of processFrameWithRealAnalysis has answered with the body
\* `frame`, or failed: the analysis runs and the interval callback publishes
ProcessFrameWithRealAnalysis(frame) ==
  LET fetched == fetch.pc = "got"
      a == analyzeImageForAnimals(frame, lastFrameData)
      detections == IF fetched THEN a.detections ELSE <<>>
      n == notifyDetections(detectionCallbacks)
      stale == ticks.stale > 0
  IN /\ variant = "Real"
     /\ fetch.pc \in {"got", "failed"}
     /\ fetch.bytes = 0 => ~frame.decodable
     /\ ticks' = IF stale THEN [ticks EXCEPT !.stale = @ - 1]
                 ELSE [ticks EXCEPT !.fresh = @ - 1]
     /\ lastFrameData' = IF fetched THEN a.lastFrameData ELSE lastFrameData
     /\ lastPublish' =
          IF detections # <<>>
            THEN [registered |-> detectionCallbacks,
                  delivered |-> n.delivered, caught |-> n.caught,
                  escaped |-> n.escaped, stale |-> stale]
            ELSE lastPublish
     /\ calc' = [op |-> "processFrameWithRealAnalysis",
                 fetched |-> fetched,
                 frame |-> IF fetched THEN frame ELSE Undecodable,
                 previous |-> lastFrameData,
                 analysed |-> fetched /\ a.analysed,
                 motion |-> IF fetched THEN a.motion
                            ELSE [detected |-> FALSE, score |-> 0],
                 confidence |-> IF fetched THEN a.confidence ELSE 0,
                 detections |-> detections]
     /\ fetch' = [IdleFetch EXCEPT !.last =
                    IF ~fetched THEN "unreachable"
                    ELSE IF detections # <<>> THEN "detected" ELSE "quiet"]
     /\ UNCHANGED <<variant, isRunning, intervalId, cameraUrl,
                    detectionInterval, detectionCallbacks, frameCount,
                    lastDetection, lastDetectionTime, model, timers, probes,
                    initWait, now, result, stopped, emits, calls>>

NextHeuristic ==
  \/ StartDetection
  \/ StopDetection
  \/ \E u \in Urls : ProbeSucceeded(u)
  \/ FrameBegin
  \/ \E ok \in BOOLEAN, size \in FrameSizes : TryUrl(ok, size)
  \/ \E frame \in Frames : ProcessFrameWithRealAnalysis(frame)
  \/ AdvanceTime(HeuristicHorizon)

SpecHeuristic == InitHeuristic /\ [][NextHeuristic]_vars

(* ------------- the HTTP routes over SimpleRealDetection --------------- *)
\* SpecRoutes drives the SimpleRealDetection singleton through the handlers
\* of routes/detection.js.

\* req.body.cameraUrl of POST /start; "" is a body without the field
StartBodies == Urls \cup {""}

InitRoutes ==
  /\ Init
  /\ variant = "Simple"

\* POST /start: setCameraUrl when the body carries a cameraUrl, then
\* startDetection, whose result is the response
PostStart(url) ==
  LET target == IF url # "" THEN url ELSE cameraUrl
  IN /\ calls < MaxCalls /\ calls' = calls + 1
     /\ isRunning \/ Cardinality(timers) + Pending(Ctl) < MaxTimers
     /\ cameraUrl' = target
     /\ SetCtl(startDetection(Ctl, target))
     /\ UNCHANGED <<calc, fetch, lastFrameData, variant, detectionInterval,
                    detectionCallbacks, frameCount, lastDetection,
                    lastDetectionTime, model, now, lastPublish, emits>>

NextRoutes ==
  \/ \E url \in StartBodies : PostStart(url)
  \/ StopDetection
  \/ \E s \in SettingsInputs : UpdateSettings(s)
  \/ GetStatus
  \/ \E cb \in Callbacks : OnDetection(cb)
  \/ \E u \in Urls : ProbeFailed(u)
  \/ \E u \in Urls : ProbeSucceeded(u)
  \/ \E t \in timers : TimerFire(t) /\ UNCHANGED fetch
  \/ \E stale \in BOOLEAN, o \in TickInputs : TickFinish(stale, o) /\ UNCHANGED fetch
  \/ AdvanceTime(SettingsHorizon)

SpecRoutes == InitRoutes /\ [][NextRoutes]_vars

(* ------------- subscribers that subscribe and unsubscribe ------------- *)
\* SpecPublish runs notifyDetections over callbacks that call onDetection or
\* removeDetectionCallback while they are being notified.
\* cbRemoveOk calls removeDetectionCallback(cbOk), cbRemoveSelf removes
\* itself, cbAddOk calls onDetection(cbOk).
Subscribers == {"cbOk", "cbThrow", "cbRemoveOk", "cbRemoveSelf", "cbAddOk"}

\* the array in this.detectionCallbacks after callback cb has run on it
AfterCall(cb, callbacks) ==
  CASE cb = "cbRemoveOk" -> Filter(callbacks, "cbOk")
    [] cb = "cbRemoveSelf" -> Filter(callbacks, "cbRemoveSelf")
    [] cb = "cbAddOk" -> Append(callbacks, "cbOk")
    [] OTHER -> callbacks

\* filter assigns a new array to this.detectionCallbacks; push changes the
\* array in place
Replaces(cb) == cb \in {"cbRemoveOk", "cbRemoveSelf"}
Pushes(cb) == cb = "cbAddOk"

\* a loop `for (i = 0; i < this.detectionCallbacks.length; i++)` over the
\* field itself: it follows every replacement and every push
RECURSIVE forLoop(_, _, _, _, _, _)
forLoop(array, callbacks, same, i, len, acc) ==
  IF i > Len(callbacks) THEN [acc EXCEPT !.after = callbacks]
  ELSE LET cb == callbacks[i]
       IN forLoop(array, AfterCall(cb, callbacks), same, i + 1, len,
                  [acc EXCEPT !.delivered = Append(@, cb),
                              !.caught = @ + (IF Throws(cb) THEN 1 ELSE 0)])

\* Array.prototype.forEach on `array`, the object this.detectionCallbacks
\* held when notifyDetections began: it visits the indices below the length
\* read at the start; `callbacks` is the field now, `same` whether it is
\* still that object, so that a push reaches `array` too
RECURSIVE forEach(_, _, _, _, _, _)
forEach(array, callbacks, same, i, len, acc) ==
  IF i > len THEN [acc EXCEPT !.after = callbacks]
  ELSE LET cb == array[i]
       IN forEach(IF same /\ Pushes(cb) THEN AfterCall(cb, array) ELSE array,
                  AfterCall(cb, callbacks),
                  same /\ ~Replaces(cb),
                  i + 1, len,
                  [acc EXCEPT !.delivered = Append(@, cb),
                              !.caught = @ + (IF Throws(cb) THEN 1 ELSE 0)])

\* notifyDetections: forEach with every call in its own try/catch
notifyDetectionsDuring(callbacks) ==
  forEach(callbacks, callbacks, TRUE, 1, Len(callbacks),
          [delivered |-> <<>>, caught |-> 0, after |-> callbacks])

\* a running SimpleRealDetection with up to MaxCallbacks + 1 subscribers
InitPublish ==
  /\ variant = "Simple"
  /\ isRunning = TRUE
  /\ intervalId = 1
  /\ cameraUrl = "camA"
  /\ detectionInterval = SimpleInterval
  /\ detectionCallbacks \in Lists(Subscribers, MaxCallbacks + 1)
  /\ frameCount = 0
  /\ lastDetection = NoDate
  /\ lastDetectionTime = 0
  /\ model = FALSE
  /\ timers = {[id |-> 1, interval |-> detectionInterval,
                due |-> Epoch + detectionInterval]}
  /\ probes = [u \in Urls |-> 0]
  /\ initWait = 0
  /\ ticks = [fresh |-> 0, stale |-> 0]
  /\ now = Epoch
  /\ result = Ret("start", TRUE, "started successfully")
  /\ stopped = FALSE
  /\ lastPublish = NoPublish
  /\ emits = [prev |-> NoDate, last |-> NoDate]
  /\ calls = 1
  /\ lastFrameData = NoFrame
  /\ fetch = IdleFetch
  /\ calc = [op |-> "notifyDetections", publishes |-> 0]

\* notifyDetections(detections) runs from its first line to its last
NotifyDetections ==
  LET n == notifyDetectionsDuring(detectionCallbacks)
  IN /\ calc.op = "notifyDetections"
     /\ calc.publishes < MaxPublishes
     /\ calc' = [calc EXCEPT !.publishes = @ + 1]
     /\ lastPublish' = [registered |-> detectionCallbacks,
                        delivered |-> n.delivered, caught |-> n.caught,
                        escaped |-> FALSE, stale |-> FALSE]
     /\ detectionCallbacks' = n.after
     /\ UNCHANGED <<variant, isRunning, intervalId, cameraUrl,
                    detectionInterval, frameCount, lastDetection,
                    lastDetectionTime, model, timers, probes, initWait, ticks,
                    now, result, stopped, emits, calls, lastFrameData, fetch>>

NextPublish == NotifyDetections

SpecPublish == InitPublish /\ [][NextPublish]_vars

AlreadyRunning == Ret("start", FALSE, "Detection already running")
NotRunning == Ret("stop", FALSE, "Detection not running")
TimerIds(ts) == {t.id : t \in ts}

\* C1: a startDetection call made while the service is running, also while
\* an earlier start still waits for its probe, returns success = false and
\* leaves isRunning, the timer, cameraUrl, detectionInterval and the
\* subscribers as they were.
C1_StartWhileRunningRejected ==
  [][(isRunning /\ StartDetection) =>
       /\ result' = AlreadyRunning
       /\ UNCHANGED <<isRunning, intervalId, timers, cameraUrl,
                      detectionInterval, detectionCallbacks, probes, initWait,
                      ticks, frameCount, lastDetection, lastDetectionTime>>]_vars

\* a start was rejected while the earlier start's probe was still pending
C1_Witness ==
  /\ result = AlreadyRunning
  /\ isRunning
  /\ intervalId = NoTimer
  /\ Pending(Ctl) > 0

\* C2: stopDetection on a service that is not running returns success = false
\* and changes nothing: no timer is created or cancelled, counters and
\* subscribers stay.
C2_StopWhileIdleRejected ==
  [][(~isRunning /\ StopDetection) =>
       /\ result' = NotRunning
       /\ UNCHANGED <<isRunning, intervalId, timers, cameraUrl,
                      detectionInterval, detectionCallbacks, probes, initWait,
                      ticks, frameCount, lastDetection, lastDetectionTime>>]_vars

\* a stop was rejected on an idle service that had run before
C2_Witness ==
  /\ result = NotRunning
  /\ ~isRunning
  /\ stopped

\* C3: when the connectivity probe of startDetection fails, the call returns
\* success = false and the service is not running afterwards: isRunning is
\* false and no timer is referenced.
C3_ProbeFailureLeavesIdle ==
  [][\A u \in Urls :
       ProbeFailed(u) =>
         /\ result'.op = "start" /\ ~result'.success
         /\ ~isRunning'
         /\ intervalId' = NoTimer]_vars

\* C4: after stopDetection has returned success no periodic timer is active
\* (so no tick begins) until a later startDetection call, also when the stop
\* came while a probe was pending and the probe then succeeds.
C4_NoTimerAfterStop == stopped => timers = {}

\* C5: no subscriber callback is invoked by a tick that was in flight when
\* stopDetection succeeded.
C5_NoDeliveryAfterStop == ~(lastPublish.stale /\ lastPublish.delivered # <<>>)

\* C6: at most one tick pipeline of SimpleRealDetection is in flight at any
\* time: its timer begins no tick while the previous one has not completed.
C6_OneTickInFlight ==
  (variant = "Simple" /\ Cardinality(timers) <= 1) => InFlight <= 1

\* C7: two successive detections emitted (and published in the same step) by
\* SimpleRealDetection are at least detectionCooldown apart, whatever the
\* tick schedule and however many frames qualify.
C7_Cooldown ==
  emits.prev # NoDate => emits.last - emits.prev >= detectionCooldown

\* a second detection was emitted after the cooldown of the first
C7_Witness ==
  /\ emits.prev # NoDate
  /\ emits.last - emits.prev > detectionCooldown
  /\ lastPublish.delivered # <<>>

\* C8: in a publish, a callback that throws is caught for that callback only:
\* every registered callback is invoked, in order, nothing escapes
\* notifyDetections, the interval callback runs on (SimpleRealDetection stamps
\* lastDetection) and the publishing step leaves the timer and isRunning alone.
C8_ThrowIsolated ==
  /\ [](/\ lastPublish.delivered = lastPublish.registered
        /\ ~lastPublish.escaped
        /\ (variant = "Simple" /\ emits.last # NoDate) =>
              lastDetection = emits.last)
  /\ [][lastPublish' # lastPublish =>
         UNCHANGED <<timers, intervalId, isRunning>>]_vars

\* a throwing callback was invoked and the one registered after it as well
C8_Witness ==
  /\ lastPublish.caught > 0
  /\ Len(lastPublish.delivered) = 2
  /\ Throws(lastPublish.delivered[1])
  /\ ~Throws(lastPublish.delivered[2])
  /\ timers # {}

\* C9: updateSettings with a new poll interval on a running service stops and
\* restarts it: the timer of the old interval is cancelled and a start is
\* under way that will set the only timer, with the new interval.
C9_IntervalChangeRestarts ==
  [][\A s \in SettingsInputs :
       ( /\ UpdateSettings(s)
         /\ isRunning /\ intervalId # NoTimer
         /\ s.detectionInterval # 0
         /\ s.detectionInterval # detectionInterval ) =>
         /\ intervalId \notin TimerIds(timers')
         /\ \A t \in timers' : t.interval = detectionInterval'
         /\ isRunning'
         /\ initWait' + SumOver(probes', Urls) > 0]_vars

\* C10: updateSettings with only a new cameraUrl on a running service stops
\* it and starts it again: the timer is cancelled and the probe is issued
\* against the new URL.
C10_UrlChangeRestarts ==
  [][\A s \in SettingsInputs :
       ( /\ UpdateSettings(s)
         /\ isRunning /\ intervalId # NoTimer
         /\ s.detectionInterval = 0
         /\ s.cameraUrl # "" /\ s.cameraUrl # cameraUrl ) =>
         /\ intervalId \notin TimerIds(timers')
         /\ \/ probes'[s.cameraUrl] > probes[s.cameraUrl]
            \/ initWait' > initWait]_vars

\* C11: a stop/start cycle, explicit or inside updateSettings, resets the
\* cooldown state and the previous-frame cache: when a start is accepted
\* after a stop, the cooldown timestamp is unset and no previous frame is
\* stored.
C11_RestartResetsState ==
  [][( /\ stopped \/ isRunning
       /\ Pending(Ctl)' > Pending(Ctl) ) =>
       /\ lastDetectionTime' = 0
       /\ lastFrameData' = NoFrame]_vars

\* C12: in every reachable state, also while a probe is pending, isRunning
\* = true implies that a periodic timer is scheduled.
C12_RunningHasTimer ==
  isRunning => (intervalId # NoTimer /\ intervalId \in TimerIds(timers))

\* C13: when every candidate camera URL fails or times out during a tick of
\* a running service, the tick yields no detection, no subscriber is
\* notified, the cooldown timestamp is unchanged, and the service stays
\* running with its timer intact.
C13_UnreachableTickIsQuiet ==
  [][(isRunning /\ fetch.pc = "failed" /\ fetch'.pc = "idle") =>
       /\ fetch'.last = "unreachable"
       /\ UNCHANGED <<lastPublish, emits, lastDetection, lastDetectionTime,
                      isRunning, intervalId, timers>>]_vars

\* a tick of a running service with subscribers ended after all its
\* requests had failed, and the service still runs on its timer
C13_Witness ==
  /\ fetch.last = "unreachable"
  /\ fetch.pc = "idle"
  /\ InFlight = 0
  /\ isRunning
  /\ intervalId \in TimerIds(timers)
  /\ detectionCallbacks # <<>>
  /\ lastPublish = NoPublish

\* C14: no failure inside a tick (frame fetch, image analysis, publishing)
\* leaves the timer callback: the step that ends a tick changes neither
\* isRunning nor the timer, whose next firing stays scheduled one poll
\* interval after the previous one.
C14_TickFailureContained ==
  [][(fetch.pc # "idle" /\ fetch'.pc = "idle") =>
       /\ UNCHANGED <<isRunning, intervalId, timers>>
       /\ \A t \in timers' : t.due >= now /\ t.due <= now + t.interval]_vars

\* after a tick whose requests all failed, and a publication in which a
\* subscriber threw, the timer has fired again
C14_Witness ==
  /\ fetch.last = "unreachable"
  /\ fetch.pc = "try"
  /\ lastPublish.caught > 0
  /\ isRunning

\* the intersection of two boxes, one axis at a time
Overlap(a, wa, b, wb) == Max(0, Min(a + wa, b + wb) - Max(a, b))
Intersection(p, q) ==
  Overlap(p.x, p.width, q.x, q.width) * Overlap(p.y, p.height, q.y, q.height)
Area(b) == b.width * b.height

\* C15: calculateIoU is symmetric: for all boxes A and B of non-negative
\* width and height, calculateIoU(A, B) = calculateIoU(B, A).
C15_IoUSymmetric ==
  (calc.op = "calculateIoU" /\ calc.done) => calc.iou = calc.swapped

\* two different boxes that overlap in part have been compared
C15_Witness ==
  /\ calc.op = "calculateIoU" /\ calc.done
  /\ calc.box1 # calc.box2
  /\ Area(calc.box1) # Area(calc.box2)
  /\ calc.iou.num > 0
  /\ calc.iou.num < calc.iou.den

\* C16 as stated: calculateIoU(A, A) = 1.0 for every box A that
\* post-processing can produce, also one whose width or height was clamped
\* to 0.
C16_SelfIoUIsOne ==
  (calc.op = "calculateIoU" /\ calc.done /\ calc.box1 = calc.box2) =>
    (calc.iou.num = calc.iou.den /\ calc.iou.den # 0)

\* C16 amended: calculateIoU(A, A) is 1 for every box A of positive width
\* and height, and 0 for a box whose width or height is 0.
C16_SelfIoU ==
  (calc.op = "calculateIoU" /\ calc.done /\ calc.box1 = calc.box2) =>
    IF calc.box1.width > 0 /\ calc.box1.height > 0
    THEN calc.iou.num = calc.iou.den /\ calc.iou.den # 0
    ELSE calc.iou.num = 0 /\ calc.iou.den # 0

\* a box clamped to width 0 at the right edge has been compared with itself
C16_Witness ==
  /\ calc.op = "calculateIoU" /\ calc.done
  /\ calc.box1 = calc.box2
  /\ calc.box1.x = Unit /\ calc.box1.width = 0 /\ calc.box1.height > 0
  /\ calc.iou.num = 0

Count(x, seq) == Cardinality({i \in DOMAIN seq : seq[i] = x})
Applied == calc.op = "applyNMS" /\ calc.done

\* C18: applyNMS never returns more candidates than it was given, and every
\* returned candidate is one of the input candidates unchanged: none is
\* invented, duplicated or modified.
C18_NMSReturnsInputs ==
  Applied =>
    /\ Len(calc.output) <= Len(calc.input)
    /\ \A k \in DOMAIN calc.output :
         Count(calc.output[k], calc.output) <= Count(calc.output[k], calc.input)

\* of three candidates, two of them equal, one was suppressed
C18_Witness ==
  /\ Applied
  /\ Len(calc.input) = 3
  /\ Len(calc.output) = 2
  /\ \E k \in DOMAIN calc.input : Count(calc.input[k], calc.input) = 2

\* C19 as stated: for any two distinct candidates that survive applyNMS,
\* their IoU is strictly less than nmsIoUThreshold.
C19_SurvivorsBelowThreshold ==
  Applied =>
    \A i, j \in DOMAIN calc.output :
      i < j => Greater(nmsThreshold,
                       calculateIoU(calc.output[i].bbox, calc.output[j].bbox))

\* C19 amended: for any two distinct candidates that survive applyNMS, their
\* IoU does not exceed nmsThreshold; it may be equal to it.
C19_SurvivorsNotAboveThreshold ==
  Applied =>
    \A i, j \in DOMAIN calc.output :
      i < j => ~Greater(calculateIoU(calc.output[i].bbox, calc.output[j].bbox),
                        nmsThreshold)

\* two candidates whose IoU equals the threshold both survived, while a
\* third one was suppressed
C19_Witness ==
  /\ Applied
  /\ Len(calc.input) = 3
  /\ Len(calc.output) = 2
  /\ Same(calculateIoU(calc.output[1].bbox, calc.output[2].bbox), nmsThreshold)

\* the positions of the sorted candidates that are kept: a candidate is
\* suppressed exactly when a kept one ranked above it overlaps it by more
\* than the threshold
KeptPositions(ds) ==
  CHOOSE K \in SUBSET DOMAIN ds :
    \A j \in DOMAIN ds :
      j \in K <=>
        ~\E i \in K : i < j /\ Greater(calculateIoU(ds[i].bbox, ds[j].bbox),
                                        nmsThreshold)

Scenario ==
  <<[class |-> "elephant", confidence |-> 80, bbox |-> Box(1, 1, 10, 10)],
    [class |-> "elephant", confidence |-> 90, bbox |-> Box(0, 0, 10, 10)]>>

\* C20: applyNMS returns its survivors in descending confidence order,
\* always keeps the highest-confidence input candidate, and suppresses a
\* candidate exactly when its IoU with some higher-ranked kept candidate
\* exceeds the threshold; with at most one candidate the input is returned
\* as it is.  Of two candidates with confidences 0.9 and 0.8 whose IoU
\* exceeds the threshold, only the 0.9 one is returned.
C20_NMSOrderAndRule ==
  Applied =>
    LET in == calc.input
        out == calc.output
    IN /\ \A k \in 1..(Len(out) - 1) : out[k].confidence >= out[k + 1].confidence
       /\ Len(in) <= 1 => out = in
       /\ Len(in) >= 1 =>
            /\ out # <<>>
            /\ \A k \in DOMAIN in : out[1].confidence >= in[k].confidence
       /\ out = At(SortByConfidence(in), KeptPositions(SortByConfidence(in)))
       /\ in = Scenario => out = <<Scenario[2]>>

\* the two candidates of the scenario went in, the 0.9 one came out
C20_Witness ==
  /\ Applied
  /\ calc.input = Scenario
  /\ calc.output = <<Scenario[2]>>

\* C22: updateSettings mutates only the fields its argument provides: with
\* only cameraUrl the interval stays and vice versa, with neither nothing
\* changes, and on an idle service subscribers, frameCount and the cooldown
\* timestamp are not altered (nor is the service started).
C22_SettingsFrame ==
  [][calls' # calls =>
       \A s \in SettingsInputs :
         UpdateSettings(s) =>
           /\ cameraUrl' = IF s.cameraUrl = "" THEN cameraUrl ELSE s.cameraUrl
           /\ detectionInterval' = IF s.detectionInterval = 0
                                   THEN detectionInterval
                                   ELSE s.detectionInterval
           /\ (s.cameraUrl = "" /\ s.detectionInterval = 0) =>
                UNCHANGED <<isRunning, intervalId, cameraUrl, detectionInterval,
                            detectionCallbacks, frameCount, lastDetection,
                            lastDetectionTime, model, timers, probes, initWait,
                            ticks, lastFrameData, result>>
           /\ ~isRunning =>
                UNCHANGED <<detectionCallbacks, frameCount, lastDetection,
                            lastDetectionTime, isRunning, intervalId, timers,
                            probes, initWait>>]_vars

\* an idle service with a subscriber was given a new cameraUrl only
C22_Witness ==
  /\ cameraUrl = "camB"
  /\ detectionInterval = DefaultInterval(variant)
  /\ ~isRunning
  /\ result.op = None
  /\ detectionCallbacks # <<>>

\* C23: getStatus is read-only: a call changes no field of the service, and
\* the snapshot it returns equals the current isRunning, cameraUrl,
\* detectionInterval, frameCount, lastDetection and number of registered
\* callbacks.
C23_StatusReadOnly ==
  [][GetStatus =>
       /\ UNCHANGED <<isRunning, intervalId, cameraUrl, detectionInterval,
                      detectionCallbacks, frameCount, lastDetection,
                      lastDetectionTime, model, timers, probes, initWait,
                      ticks, lastFrameData, result>>
       /\ calc'.status.isRunning = isRunning'
       /\ calc'.status.cameraUrl = cameraUrl'
       /\ calc'.status.detectionInterval = detectionInterval'
       /\ variant = "Simple" =>
            /\ calc'.status.frameCount = frameCount'
            /\ calc'.status.lastDetection = lastDetection'
            /\ calc'.status.callbackCount = Len(detectionCallbacks')]_vars

\* the status of a SimpleRealDetection was read while a start waited for its
\* probe, with a subscriber registered and the camera URL changed
C23_Witness ==
  /\ calc.op = "getStatus"
  /\ variant = "Simple"
  /\ calc.status.isRunning
  /\ intervalId = NoTimer
  /\ calc.status.callbackCount > 0
  /\ calc.status.cameraUrl = "camB"

\* C24: each publish invokes every callback registered at that moment, once
\* per registration and in registration order, so a callback registered
\* before the start is invoked by every publishing tick until it is removed.
C24_PublishReachesAll ==
  [][lastPublish' # lastPublish =>
       /\ lastPublish'.delivered = detectionCallbacks
       /\ detectionCallbacks' = detectionCallbacks]_vars

\* one callback was registered twice and a publish of the running service
\* invoked it twice
C24_Witness ==
  /\ Len(lastPublish.delivered) = 2
  /\ lastPublish.delivered[1] = lastPublish.delivered[2]
  /\ lastPublish.delivered = detectionCallbacks
  /\ ~lastPublish.stale

\* C25: within a tick the candidate URLs are asked in the order /shot.jpg,
\* /snapshot.jpg, /image.jpg, /capture.jpg, base URL; the frame used is the
\* first one that answered with a non-empty body: an answer with an empty
\* body is skipped in favour of the next candidate, and no candidate after
\* the accepted one is asked.
C25_FirstNonEmptyBodyUsed ==
  variant = "Simple" =>
    /\ fetch.pc \in {"try", "got"} => fetch.idx \in DOMAIN CameraUrls
    /\ fetch.pc = "got" => fetch.bytes > 0

\* C26: if the accepted response body is smaller than the minimum of 1000
\* bytes, the tick yields no detection whatever the image would show,
\* notifies no subscriber and leaves the cooldown timestamp unchanged.
C26_SmallFrameSkipped ==
  [][( /\ variant = "Simple"
       /\ fetch.pc = "got" /\ fetch.bytes < MinFrameBytes
       /\ fetch'.pc = "idle" ) =>
       /\ fetch'.last = "small"
       /\ UNCHANGED <<lastPublish, emits, lastDetection, lastDetectionTime>>]_vars

\* a tick of a running SimpleRealDetection with a subscriber ended on a
\* body below the minimum, and nothing was published
C26_Witness ==
  /\ variant = "Simple"
  /\ fetch.last = "small"
  /\ fetch.pc = "idle"
  /\ isRunning
  /\ detectionCallbacks # <<>>
  /\ lastPublish = NoPublish
  /\ lastDetectionTime = 0

Postprocessed == calc.op = "postprocessResults" /\ calc.done
InUnitSquare(b) ==
  /\ 0 <= b.x /\ b.x <= NormUnit
  /\ 0 <= b.y /\ b.y <= NormUnit
  /\ b.width >= 0 /\ b.height >= 0
  /\ b.x + b.width <= NormUnit
  /\ b.y + b.height <= NormUnit

\* C27: for every anchor accepted by post-processing, whatever its
\* centre-format box (cx, cy, w, h), the emitted box satisfies 0 <= x <= 1,
\* 0 <= y <= 1, width >= 0, height >= 0, x + width <= 1, y + height <= 1.
C27_ModelBoxInUnitSquare ==
  Postprocessed =>
    /\ \A k \in DOMAIN calc.candidates : InUnitSquare(calc.candidates[k].bbox)
    /\ \A k \in DOMAIN calc.output : InUnitSquare(calc.output[k].bbox)

\* boxes were returned for an anchor beyond the right edge, clamped to width
\* 0, and for one of negative width and a height above the frame
C27_Witness ==
  /\ Postprocessed
  /\ Len(calc.output) = 2
  /\ \E k \in DOMAIN calc.output :
       calc.output[k].bbox.x = NormUnit /\ calc.output[k].bbox.width = 0
  /\ \E k \in DOMAIN calc.output :
       calc.output[k].bbox.y = 0 /\ calc.output[k].bbox.height = NormUnit

\* the fields of record i of a well-formed output
Objectness(data, i) == data[i * RecordSize + 5]
ClassScore(data, i, j) == data[i * RecordSize + 6 + j]
IsArgMax(data, i, j) ==
  \A k \in 0..(NumClasses - 1) :
    /\ ClassScore(data, i, k) <= ClassScore(data, i, j)
    /\ k < j => ClassScore(data, i, k) < ClassScore(data, i, j)
AtLeastThreshold(v, scale) ==
  v * confidenceThreshold.den >= confidenceThreshold.num * scale
Accepted(data, i) ==
  \E j \in animalClasses :
    /\ IsArgMax(data, i, j)
    /\ AtLeastThreshold(Objectness(data, i), 100)
    /\ AtLeastThreshold(Objectness(data, i) * ClassScore(data, i, j), 10000)
Expected(data, i) ==
  LET j == CHOOSE c \in 0..(NumClasses - 1) : IsArgMax(data, i, c)
  IN [class |-> classNames[j + 1],
      confidence |-> Objectness(data, i) * ClassScore(data, i, j),
      bbox |-> Convert(data[i * RecordSize + 1], data[i * RecordSize + 2],
                       data[i * RecordSize + 3], data[i * RecordSize + 4])]
WellFormed ==
  /\ calc.results.key # None
  /\ calc.results.tensor.present /\ calc.results.tensor.hasData
  /\ Len(calc.results.tensor.data) % RecordSize = 0

\* C28: every detection returned by model post-processing comes from an
\* anchor whose objectness is at least confidenceThreshold, whose combined
\* confidence (objectness times maximum class score) is at least
\* confidenceThreshold and whose arg-max class is in the animal allow-list;
\* and every such anchor becomes a candidate before NMS.
C28_AcceptedAnchors ==
  (Postprocessed /\ WellFormed) =>
    LET data == calc.results.tensor.data
        n == Len(data) \div RecordSize
        all == [i \in 1..n |-> IF Accepted(data, i - 1)
                               THEN Expected(data, i - 1) ELSE NoTensor]
    IN /\ calc.candidates = At(all, {i \in 1..n : Accepted(data, i - 1)})
       /\ \A k \in DOMAIN calc.output :
            \E m \in DOMAIN calc.candidates :
              calc.output[k] = calc.candidates[m]

\* of two anchors, the one with equal top scores for cat and dog became the
\* candidate `cat`, the other one was dropped
C28_Witness ==
  /\ Postprocessed /\ WellFormed
  /\ Len(calc.results.tensor.data) = 2 * RecordSize
  /\ Len(calc.candidates) = 1
  /\ calc.candidates[1].class = "cat"
  /\ calc.output = calc.candidates

\* C29: model post-processing returns an empty list, without throwing,
\* whenever the model output is malformed: when the expected output tensor
\* key is missing, and when the flat output length is not divisible by the
\* record size 85, in which case no anchor of that output produces a
\* detection.
C29_MalformedOutputIsEmpty ==
  ( /\ Postprocessed
    /\ \/ calc.results.key \notin {"output0", "output"}
       \/ Len(calc.results.tensor.data) % RecordSize # 0 ) =>
    calc.output = <<>>

\* C30 (as stated): the analysis is chosen on every tick from the model
\* availability of that moment: no tick runs detectAnimalsInFrame while no
\* model is loaded, and every tick that begins after the model was loaded
\* runs detectAnimalsInFrame.
C30_EveryLaterTickUsesModel ==
  [][(fetch.pc \in {"got", "failed"} /\ fetch'.pc = "idle") =>
       /\ fetch'.strategy = "detectAnimalsInFrame" => model
       /\ fetch.loaded => fetch'.strategy = "detectAnimalsInFrame"]_vars

\* C30 (amended): no tick runs detectAnimalsInFrame while no model is
\* loaded; a tick whose frame request answered runs detectAnimalsInFrame
\* exactly when the model is loaded at that moment, so every tick that begins
\* after the model was loaded and receives a frame runs it; a tick whose
\* request fails runs neither analysis.
C30_StrategyFollowsModel ==
  [][(fetch.pc \in {"got", "failed"} /\ fetch'.pc = "idle") =>
       /\ fetch'.strategy = "detectAnimalsInFrame" => model
       /\ fetch.pc = "got" =>
            (fetch'.strategy = "detectAnimalsInFrame" <=> model)
       /\ (fetch.loaded /\ fetch.pc = "got") =>
            fetch'.strategy = "detectAnimalsInFrame"
       /\ fetch.pc = "failed" => fetch'.strategy = None]_vars

\* a tick that began after the model was loaded while the service was
\* running has received its frame, run detectAnimalsInFrame and published
C30_Witness ==
  /\ fetch.pc = "idle"
  /\ fetch.loaded
  /\ fetch.last = "detected"
  /\ fetch.strategy = "detectAnimalsInFrame"
  /\ isRunning
  /\ lastPublish # NoPublish

\* a box lies in the unit square
Inside(b) ==
  /\ b.x >= 0 /\ b.y >= 0
  /\ b.x + b.width <= b.unit
  /\ b.y + b.height <= b.unit

\* C21: every bounding box in a detection delivered to the subscribers,
\* decoded from the model or synthesized by a heuristic analysis, in each of
\* the three services, has x >= 0, y >= 0, x + width <= 1, y + height <= 1.
C21_DeliveredBoxInUnitSquare ==
  (calc.op = "bbox" /\ lastPublish # NoPublish) =>
    \A k \in DOMAIN calc.bboxes : Inside(calc.bboxes[k])

\* C31: while the model file is absent, the background download is started
\* at most once in the lifetime of the service, however often startDetection
\* is called before the model is there, and neither the constructor nor
\* startDetection waits for the download.
C31_DownloadStartedOnce ==
  calc.op = "initializeModel" =>
    /\ calc.started <= 1
    /\ Len(calc.scheduled) + calc.downloading <= 1

\* the analysis of a tick of RealAnimalDetectionService has been recorded
Analysed == calc.op = "processFrameWithRealAnalysis" /\ calc.analysed

\* C32: at the end of every heuristic tick that fetched a frame, the stored
\* previous frame is that tick's frame, whether or not a detection fired.
C32_StoredFrameIsLatest ==
  (calc.op = "processFrameWithRealAnalysis" /\ calc.fetched) =>
    lastFrameData = calc.frame

\* C33: detectMotion returns score 0 and detected = false when the current
\* frame is pixel-identical to the stored previous frame, and also when no
\* previous frame is stored.
C33_NoMotionWithoutChange ==
  Analysed =>
    ( (IF calc.previous = NullFrame THEN TRUE
       ELSE calc.frame.pixels = calc.previous.pixels) =>
        calc.motion.score = 0 /\ ~calc.motion.detected )

\* a bright frame was compared with itself
C33_Witness ==
  /\ Analysed
  /\ calc.previous = calc.frame
  /\ calc.frame.pixels = <<255, 255>>
  /\ lastFrameData = calc.frame
  /\ calc.motion.score = 0

\* 0.40 motion + 0.25 shape + 0.20 color + 0.15 texture of the recorded tick
WeightedSum ==
  4000 * calc.motion.score
    + (25 * calc.frame.shapes + 20 * calc.frame.colors
         + 15 * calc.frame.textures) * MotionUnit

\* C34: a heuristic tick yields exactly one candidate when the weighted sum
\* 0.40 motion + 0.25 shape + 0.20 color + 0.15 texture is strictly greater
\* than confidenceThreshold and none otherwise, and the candidate's
\* confidence is the weighted sum.
C34_OneCandidateAboveThreshold ==
  calc.op = "processFrameWithRealAnalysis" =>
    IF calc.analysed /\ WeightedSum * 100 > heuristicThreshold * CombinedUnit
      THEN /\ Len(calc.detections) = 1
           /\ calc.detections[1].confidence = WeightedSum
      ELSE calc.detections = <<>>

\* a candidate was produced by partial motion against the stored frame
C34_Witness ==
  /\ Analysed
  /\ Len(calc.detections) = 1
  /\ calc.motion.score > 0
  /\ calc.motion.score < MotionUnit
  /\ calc.frame.textures > 0
  /\ lastPublish # NoPublish

\* C38: with the default confidenceThreshold 0.6 no tick whose motion score
\* is 0 produces a detection, whatever the shape, color and texture scores;
\* the first tick after construction, which has no previous frame, produces
\* none.
C38_NoDetectionWithoutMotion ==
  calc.op = "processFrameWithRealAnalysis" =>
    /\ calc.motion.score = 0 => calc.detections = <<>>
    /\ calc.previous = NullFrame => calc.detections = <<>>

\* the first frame had shape, color and texture scores of 1, a weighted sum
\* of exactly 0.6, and gave no detection
C38_Witness ==
  /\ Analysed
  /\ calc.previous = NullFrame
  /\ calc.frame.shapes = 100 /\ calc.frame.colors = 100
  /\ calc.frame.textures = 100
  /\ calc.confidence * 100 = heuristicThreshold * CombinedUnit
  /\ calc.detections = <<>>

\* the tick's frame passes every test of analyzeFrame: a request answered
\* with at least 1000 bytes, significant content, confidence above 0.75,
\* brightness above 50, and the cooldown window has passed
Emitting(o) ==
  /\ o.fetched /\ o.bytes >= MinFrameBytes
  /\ o.hasSignificantContent
  /\ o.confidence > MinConfidence /\ o.brightness > MinBrightness
  /\ now - lastDetectionTime > detectionCooldown

\* C35: lastDetectionTime is set to the tick's `now` exactly on the ticks
\* that emit a detection and is left unchanged by every other tick: all
\* requests failed, frame too small, analysis below the thresholds, or
\* still inside the cooldown window.
C35_CooldownStampOnlyOnEmission ==
  [][(variant = "Simple" /\ fetch.pc \in {"got", "failed"}
        /\ fetch'.pc = "idle") =>
       \A a \in AnalysisInputs :
         FrameFinish(a) =>
           lastDetectionTime' = IF Emitting(FrameInput(fetch, a)) THEN now
                                ELSE lastDetectionTime]_vars

\* after a detection, a later tick inside the cooldown window received a
\* frame, emitted nothing and left the timestamp at the detection's time
C35_Witness ==
  /\ variant = "Simple"
  /\ fetch.pc = "idle"
  /\ fetch.last = "quiet"
  /\ lastDetectionTime # 0
  /\ lastDetectionTime = emits.last
  /\ lastDetectionTime < now
  /\ frameCount >= 2

\* C36: under any interleaving of startDetection, stopDetection and
\* updateSettings with pending probes, at most one periodic timer is active
\* and intervalId refers to it: no timer runs that stopDetection can no
\* longer cancel.
C36_OneCancellableTimer ==
  /\ Cardinality(timers) <= 1
  /\ \A t \in timers : t.id = intervalId /\ isRunning

\* C37: a POST /start that is rejected because detection is already running
\* leaves cameraUrl unchanged, also when its body carries a cameraUrl: the
\* running service keeps fetching from the URL it was started with.
C37_RejectedStartKeepsUrl ==
  [][calls' # calls =>
       \A url \in StartBodies :
         (PostStart(url) /\ isRunning) =>
           /\ result' = AlreadyRunning
           /\ cameraUrl' = cameraUrl]_vars

\* C39: applyNMS is idempotent: for every candidate list L,
\* applyNMS(applyNMS(L)) returns the same candidates in the same order as
\* applyNMS(L).
C39_NMSIdempotent ==
  Applied => applyNMS(calc.output) = calc.output

\* of three unsorted candidates one was suppressed and two different ones
\* of equal confidence survived
C39_Witness ==
  /\ Applied
  /\ Len(calc.input) = 3
  /\ Len(calc.output) = 2
  /\ calc.input[1].confidence < calc.input[3].confidence
  /\ calc.output[1].confidence = calc.output[2].confidence
  /\ calc.output[1] # calc.output[2]

\* what the subscribers' own calls make of the list, one callback after the
\* other
RECURSIVE AfterAll(_, _)
AfterAll(called, callbacks) ==
  IF called = <<>> THEN callbacks
  ELSE AfterAll(Tail(called), AfterCall(Head(called), callbacks))

\* C40: a publish delivers to exactly the callbacks registered when it
\* began: a callback removed by an earlier callback during the publish is
\* still invoked in it, a callback added during the publish is not invoked
\* before the next publish, and neither skips or repeats another callback.
C40_PublishUsesListAtStart ==
  [][calc'.publishes # calc.publishes =>
       /\ lastPublish'.delivered = detectionCallbacks
       /\ detectionCallbacks' = AfterAll(detectionCallbacks, detectionCallbacks)]_vars

\* cbOk was removed by the callback before it and still called; the cbOk
\* that cbAddOk registered was not called in that publish
C40_Witness ==
  /\ calc.op = "notifyDetections"
  /\ calc.publishes = 1
  /\ lastPublish.registered = <<"cbRemoveOk", "cbOk", "cbAddOk">>
  /\ lastPublish.delivered = <<"cbRemoveOk", "cbOk", "cbAddOk">>
  /\ detectionCallbacks = <<"cbRemoveOk", "cbAddOk", "cbOk">>
====
